---- MODULE Spec2Model ----
(***************************************************************************)
(* Verification model of the family-vault-ai document pipeline:            *)
(*   - the embedding generator (utils/embedding.ts),                       *)
(*   - the ingestion orchestrator processDocument (utils/document-         *)
(*     processor.ts, utils/document.ts) with its callers,                  *)
(*   - the retrieval cascade searchDocuments (app/api/chat/route.ts).      *)
(* Numbers are integers in units of 1/4 (Math.random() is drawn from       *)
(* {0, 1/4, 2/4, 3/4}); strings are sequences of character codes.          *)
(***************************************************************************)
EXTENDS Integers, Sequences, FiniteSets, Bags, TLC

VARIABLES
    apiKey,          \* process.env.OPENAI_API_KEY is set
    embedText,       \* the text the embedding generator is called on
    embedCalls,      \* number of generateEmbedding calls made so far
    prevEmbed,       \* outcome of the call before the last one (or NULL)
    lastEmbed,       \* outcome of the last generateEmbedding call (or NULL)
    documents,       \* table documents: id -> row
    document_chunks, \* table document_chunks: the rows, in insertion order
    inv,             \* the processDocument invocation of each caller
    calls,           \* number of processDocument invocations started so far
    tmpFiles,        \* os.tmpdir(): the file llamaparse_<t>.pdf of each time t
    searchPc,        \* where the searchDocuments call of the chat route stands
    searchQuery,     \* its query
    searchUser,      \* its userId
    queryEmbedding,  \* its local queryEmbedding
    searchChunks,    \* its local chunks
    stageLog,        \* the datastore queries it has issued, with their outcomes
    searchResult,    \* what it returned (undefined: not yet)
    searches,        \* number of searchDocuments calls started so far
    documentContext, \* the labelled entries POST /api/chat built from the result
    chunkIn,         \* the arguments the chunker is called with
    chunkOut,        \* what semanticChunkDocument made of them (or Pending)
    sectionOut,      \* what its heading-aware form made of them (or Pending)
    extractIn,       \* the buffer and content type extractText is called with
    extractOut       \* what extractText made of them (or Pending)

embedVars == <<apiKey, embedText, embedCalls, prevEmbed, lastEmbed>>

ingestVars == <<documents, document_chunks, inv, calls, tmpFiles>>

searchVars ==
    <<searchPc, searchQuery, searchUser, queryEmbedding, searchChunks, stageLog,
      searchResult, searches, documentContext>>

chunkVars == <<chunkIn, chunkOut, sectionOut, extractIn, extractOut>>

vars == <<embedVars, ingestVars, searchVars, chunkVars>>

NULL == [null |-> TRUE]

\* null in a column or variable that otherwise holds a string
NullString == "<null>"

Min(a, b) == IF a < b THEN a ELSE b

(***************************************************************************)
(* Bounds of the model.                                                    *)
(***************************************************************************)
MaxEmbedCalls == 2

\* processDocument invocations in one behaviour
MaxCalls == 2

\* searchDocuments calls in one behaviour
MaxSearches == 2

\* the longest text that is hashed
MaxHashedLen == 12000

(***************************************************************************)
(* Embedding generator                                                     *)
(***************************************************************************)
EMBED_DIM == 384

\* hash.length of a SHA-256 digest
HASH_LEN == 32

\* Math.random() returns k/4 for a level k in RandomLevels, i.e. a value in [0, 1)
RandomLevels == 0 .. 3

\* the texts the generator is exercised on (character codes)
Texts == {<<1>>, <<2, 3>>}

\* lengths of the vector the provider may return (provider-native dimensionality)
ProviderLengths == {100, 384, 1600}

RandomSeeds == RandomLevels

\* The i-th (0-based) value Math.random() returns during one call, in quarters.
\* seed selects one of the possible streams of values.
MathRandom(seed, i) == (seed + i + (i \div 3)) % 4

\* Math.random() - 0.5, in quarters
RandomCentered(seed, i) == MathRandom(seed, i) - 2

\* the powers of 31 modulo 65521, Pow31[k] being 31^(k - 1) (MulMod is a * b modulo 65521 for a, b below
\* 65521, computed without leaving 32 bits)
Pow31 ==
    LET MulMod(a, b) ==
            (((a * (b \div 256)) % 65521) * 256 + a * (b % 256)) % 65521
        RECURSIVE PowMod31(_)
        PowMod31(k) ==
            IF k = 0 THEN 1
            ELSE LET half == PowMod31(k \div 2)
                 IN  IF k % 2 = 0 THEN MulMod(half, half)
                     ELSE (31 * MulMod(half, half)) % 65521
    IN  [k \in 1 .. MaxHashedLen + 1 |-> PowMod31(k - 1)]

\* a polynomial hash of the characters of the text: 7 for the empty text and
\* (31 * TextFold(Tail(text)) + Head(text)) % 65521 otherwise, computed as the
\* sum of the characters weighted by the powers of 31
TextFold(text) ==
    LET n == Len(text)
        terms == [i \in 1 .. n |-> 1 + ((text[i] * Pow31[i]) % 65521)]
    IN  (BagCardinality(terms) - n + 7 * Pow31[n + 1]) % 65521

\* crypto.createHash("sha256").update(text).digest(): 32 bytes that are a function
\* of the text alone; indexed from 0
Sha256Digest(text) ==
    LET h == TextFold(text)
    IN  [b \in 0 .. (HASH_LEN - 1) |-> ((h + 1) * (2 * b + 3) + b * b) % 256]

\* (byteValue >> bitIndex) & 1
BitOf(byteValue, bitIndex) == (byteValue \div (2 ^ bitIndex)) % 2

\* what embeddings.embedQuery(text) resolves to: a vector of the provider's own
\* length that is a function of the text, with entries in {-1, 0, 1}
ProviderVector(text, len) ==
    LET h == TextFold(text)
    IN  [i \in 1 .. len |->
            (((((h % 251) + 1) * (((i + 11) * (i + 11)) % 241)
                + i * ((h % 13) + 1)) % 11) % 3) - 1]

padOrTruncateEmbeddingNoPad(embedding, targetLength) ==
    IF Len(embedding) > targetLength
    THEN SubSeq(embedding, 1, targetLength)
    ELSE embedding

padOrTruncateEmbedding(embedding, targetLength) ==
    IF Len(embedding) > targetLength
    THEN SubSeq(embedding, 1, targetLength)
    ELSE IF Len(embedding) < targetLength
         THEN embedding \o [i \in 1 .. (targetLength - Len(embedding)) |-> 0]
         ELSE embedding

\* env: [providerThrows, providerLen, hashThrows, seed], the outcomes of the
\* collaborators during one call.
\* returns NULL when the provider call throws (the catch branch)
tryOpenAIEmbedding(text, env) ==
    IF env.providerThrows
    THEN NULL
    ELSE padOrTruncateEmbedding(ProviderVector(text, env.providerLen), EMBED_DIM)

generateHashBasedEmbedding(text, env) ==
    LET hash == Sha256Digest(text)
    IN  [i \in 1 .. EMBED_DIM |->
            LET byteIndex == (i - 1) % HASH_LEN
                bitIndex == (i - 1) % 8
                byteValue == hash[byteIndex]
                bitValue == BitOf(byteValue, bitIndex)
            IN  IF bitValue = 1
                THEN RandomCentered(env.seed, i - 1)
                ELSE 0 - RandomCentered(env.seed, i - 1)]

tryHashOrRandomEmbeddingNoCatch(text, env) ==
    IF env.hashThrows
    THEN [threw |-> TRUE, embedding |-> <<>>, path |-> <<"hash">>]
    ELSE [threw |-> FALSE, embedding |-> generateHashBasedEmbedding(text, env),
          path |-> <<"hash">>]

\* try { hash } catch { 384 random values }
tryHashOrRandomEmbedding(text, env) ==
    IF env.hashThrows
    THEN [threw |-> FALSE,
          embedding |-> [i \in 1 .. EMBED_DIM |-> RandomCentered(env.seed, i - 1)],
          path |-> <<"hash", "random">>]
    ELSE [threw |-> FALSE, embedding |-> generateHashBasedEmbedding(text, env),
          path |-> <<"hash">>]

\* The outcome of one call: threw (an exception reached the caller), the vector
\* returned, and path, the stages that were run, in order.
generateEmbedding(text, key, env) ==
    LET openAIEmbedding == IF key THEN tryOpenAIEmbedding(text, env) ELSE NULL
        fallback == tryHashOrRandomEmbedding(text, env)
    IN  IF key /\ openAIEmbedding # NULL
        THEN [threw |-> FALSE, embedding |-> openAIEmbedding, path |-> <<"openai">>]
        ELSE [threw |-> fallback.threw, embedding |-> fallback.embedding,
              path |-> (IF key THEN <<"openai">> ELSE <<>>) \o fallback.path]

(***************************************************************************)
(* The chunker: semanticChunkDocument (utils/chunking.ts)                  *)
(* Strings are sequences of character codes: 0 space, 1..26 a..z,          *)
(* 27..52 A..Z, and the codes below.                                       *)
(***************************************************************************)
NL == 60

DOT == 61

EXCL == 62

QM == 63

DASH == 64

STAR == 65

BULLET == 66

COLON == 67

\* \s
WS == {0, NL}

\* [.!?]
Punct == {DOT, EXCL, QM}

\* [\-*•]
BulletChars == {DASH, STAR, BULLET}

\* [A-Z]
IsUpper(c) == c \in 27 .. 52

SetMin(S) == CHOOSE x \in S : \A y \in S : x <= y

SetMax(S) == CHOOSE x \in S : \A y \in S : y <= x

\* String.prototype.trim
trim(s) ==
    LET IsNonWs(i) == s[i] \notin WS
        nonWs == SelectSeq([i \in 1 .. Len(s) |-> i], IsNonWs)
    IN  IF nonWs = <<>> THEN <<>> ELSE SubSeq(s, nonWs[1], nonWs[Len(nonWs)])

\* the last index of the run of whitespace that starts at index i
WsRunEnd(s, i) ==
    LET after == {j \in i .. Len(s) : s[j] \notin WS}
    IN  IF after = {} THEN Len(s) ELSE SetMin(after) - 1

\* the non-overlapping matches of a regex, scanning from the left: starts is the
\* set of indexes where a match can start, endOf[i] the last index of the match
\* that starts at i
RECURSIVE LeftmostMatches(_, _, _)
LeftmostMatches(starts, endOf, from) ==
    LET c == {i \in starts : i >= from}
    IN  IF c = {} THEN <<>>
        ELSE LET m == SetMin(c)
             IN  <<[start |-> m, end |-> endOf[m]]>>
                     \o LeftmostMatches(starts, endOf, endOf[m] + 1)

\* String.prototype.split on the matches of a regex without capture groups
SplitAt(s, matches) ==
    [k \in 1 .. (Len(matches) + 1) |->
        SubSeq(s,
               IF k = 1 THEN 1 ELSE matches[k - 1].end + 1,
               IF k <= Len(matches) THEN matches[k].start - 1 ELSE Len(s))]

NonEmpty(s) == s # <<>>

\* .map((u) => u.trim()).filter(Boolean)
TrimmedUnits(pieces) ==
    SelectSeq([k \in 1 .. Len(pieces) |-> trim(pieces[k])], NonEmpty)

\* /(?:^|\n)[\-*•]\s+/g : the indexes where a match starts
BulletStarts(s) ==
    {i \in 1 .. Len(s) :
        \/ i = 1 /\ Len(s) >= 2 /\ s[1] \in BulletChars /\ s[2] \in WS
        \/ s[i] = NL /\ i + 2 <= Len(s) /\ s[i + 1] \in BulletChars /\ s[i + 2] \in WS}

BulletMatches(s) ==
    LET starts == BulletStarts(s)
        endOf == [i \in starts |->
                    IF s[i] \in BulletChars THEN WsRunEnd(s, i + 1)
                    ELSE WsRunEnd(s, i + 2)]
    IN  LeftmostMatches(starts, endOf, 1)

\* /(?<=[.!?])\s+(?=[A-Z])/g : the matches, from the indexes where one starts
SentenceMatches(s) ==
    LET starts == {i \in 2 .. Len(s) :
                      /\ s[i - 1] \in Punct
                      /\ s[i] \in WS
                      /\ WsRunEnd(s, i) < Len(s)
                      /\ IsUpper(s[WsRunEnd(s, i) + 1])}
        endOf == [i \in starts |-> WsRunEnd(s, i)]
    IN  LeftmostMatches(starts, endOf, 1)

\* lastChunk.split(/(?<=[.!?])\s+|\n/).slice(-1)[0] || "" : what follows the last
\* index a match covers (a newline, or whitespace that directly follows . ! ?)
getOverlapChunk(lastChunk) ==
    LET seps == {j \in 1 .. Len(lastChunk) :
                    /\ lastChunk[j] \in WS
                    /\ \/ lastChunk[j] = NL
                       \/ LET before == {k \in 1 .. j : lastChunk[k] \notin WS}
                          IN  before # {} /\ lastChunk[SetMax(before)] \in Punct}
    IN  IF seps = {} THEN lastChunk
        ELSE SubSeq(lastChunk, SetMax(seps) + 1, Len(lastChunk))

DEFAULT_OVERLAP == 50

NoHeading == [present |-> FALSE, text |-> <<>>]

Heading(h) == [present |-> TRUE, text |-> h]

Chunk(heading, content) == [heading |-> heading, content |-> content]

\* current ? current + " " + unit : unit
Joined(current, unit) == IF current # <<>> THEN current \o <<0>> \o unit ELSE unit

\* the earlier form of the unit loop (groupAndChunkByUnitsSimple): after a flush
\* the unit is appended to the overlap fragment whatever the length of the result
RECURSIVE GroupUnitsSimple(_, _, _, _, _, _)
GroupUnitsSimple(units, k, chunks, current, maxChunkSize, overlap) ==
    IF k > Len(units)
    THEN IF trim(current) # <<>>
         THEN Append(chunks, Chunk(NoHeading, trim(current)))
         ELSE chunks
    ELSE LET unit == units[k]
         IN  IF Len(Joined(current, unit)) > maxChunkSize /\ current # <<>>
             THEN LET flushed == Append(chunks, Chunk(NoHeading, trim(current)))
                      seed == IF overlap > 0
                              THEN getOverlapChunk(flushed[Len(flushed)].content)
                              ELSE <<>>
                  IN  GroupUnitsSimple(units, k + 1, flushed, Joined(seed, unit),
                                       maxChunkSize, overlap)
             ELSE GroupUnitsSimple(units, k + 1, chunks, Joined(current, unit),
                                   maxChunkSize, overlap)

groupAndChunkByUnitsSimple(units, maxChunkSize, overlap) ==
    GroupUnitsSimple(units, 1, <<>>, <<>>, maxChunkSize, overlap)

\* the loop of chunkUnitsWithOverlap from unit k on, with the chunks pushed so far
\* and the running chunk current
RECURSIVE ChunkUnits(_, _, _, _, _, _)
ChunkUnits(units, k, chunks, current, maxChunkSize, overlap) ==
    IF k > Len(units)
    THEN IF trim(current) # <<>>
         THEN Append(chunks, Chunk(NoHeading, trim(current)))
         ELSE chunks
    ELSE LET unit == units[k]
             next == Joined(current, unit)
             pushUnitAsChunk(cs) == Append(cs, Chunk(NoHeading, trim(unit)))
         IN  IF current = <<>> /\ Len(next) > maxChunkSize
             THEN ChunkUnits(units, k + 1, pushUnitAsChunk(chunks), <<>>,
                             maxChunkSize, overlap)
             ELSE IF Len(next) > maxChunkSize
             THEN LET flushes == trim(current) # <<>>
                      flushed == IF flushes
                                 THEN Append(chunks, Chunk(NoHeading, trim(current)))
                                 ELSE chunks
                      kept == IF flushes THEN <<>> ELSE current
                      seed == IF overlap > 0 /\ Len(flushed) > 0
                              THEN getOverlapChunk(flushed[Len(flushed)].content)
                              ELSE kept
                  IN  IF Len(Joined(seed, unit)) > maxChunkSize
                      THEN ChunkUnits(units, k + 1, pushUnitAsChunk(flushed), <<>>,
                                      maxChunkSize, overlap)
                      ELSE ChunkUnits(units, k + 1, flushed, Joined(seed, unit),
                                      maxChunkSize, overlap)
             ELSE ChunkUnits(units, k + 1, chunks, next, maxChunkSize, overlap)

\* chunkUnitsWithOverlap pushing the running chunk at the end without looking
\* whether it is blank
chunkUnitsPushBlank(units, maxChunkSize, overlap) ==
    LET chunks == ChunkUnits(units, 1, <<>>, <<>>, maxChunkSize, overlap)
    IN  IF chunks # <<>> /\ Len(chunks[Len(chunks)].content) > maxChunkSize
        THEN Append(chunks, Chunk(NoHeading, <<>>))
        ELSE chunks

\* chunkUnitsWithOverlap without the units that are longer than maxChunkSize
chunkUnitsSkipOversize(units, maxChunkSize, overlap) ==
    ChunkUnits(SelectSeq(units, LAMBDA unit : Len(unit) <= maxChunkSize), 1, <<>>,
               <<>>, maxChunkSize, overlap)

chunkUnitsWithOverlap(units, maxChunkSize, overlap) ==
    ChunkUnits(units, 1, <<>>, <<>>, maxChunkSize, overlap)

\* a call that returns chunks, and one whose loop never ends
Returns(chunks) == [terminates |-> TRUE, chunks |-> chunks]

Diverges == [terminates |-> FALSE, chunks |-> <<>>]

\* a call that ends with a TypeError
Throws(message) == [terminates |-> TRUE, chunks |-> <<>>, thrown |-> message]

\* the windows, the empty ones kept
CharWindowsKeepEmpty(text, maxChunkSize, step) ==
    LET n == (Len(text) + step - 1) \div step
    IN  [k \in 1 .. n |->
            trim(SubSeq(text, (k - 1) * step + 1,
                        Min(Len(text), (k - 1) * step + maxChunkSize)))]

\* the windows one after the other: the step is the window size
CharWindowsNoOverlap(text, maxChunkSize, step) ==
    LET n == (Len(text) + maxChunkSize - 1) \div maxChunkSize
        window(k) == trim(SubSeq(text, k * maxChunkSize + 1,
                                 Min(Len(text), (k + 1) * maxChunkSize)))
    IN  SelectSeq([k \in 1 .. n |-> window(k - 1)], NonEmpty)

\* the character fallback of chunkTextBySize: the windows text.slice(i, i +
\* maxChunkSize).trim() for i = 0, step, 2 * step, ... below text.length, the
\* empty ones dropped
CharWindows(text, maxChunkSize, step) ==
    LET n == (Len(text) + step - 1) \div step
        window(k) == trim(SubSeq(text, k * step + 1,
                                 Min(Len(text), k * step + maxChunkSize)))
    IN  SelectSeq([k \in 1 .. n |-> window(k - 1)], NonEmpty)

\* result.push({ heading: null, content: chunk })
AsChunks(contents) == [k \in 1 .. Len(contents) |-> Chunk(NoHeading, contents[k])]

chunkTextBySize(text, maxChunkSize, overlap) ==
    IF Len(text) = 0 THEN Returns(<<>>)
    ELSE IF BulletStarts(text) # {}
    THEN Returns(chunkUnitsWithOverlap(TrimmedUnits(SplitAt(text, BulletMatches(text))),
                                       maxChunkSize, overlap))
    ELSE LET sentences == TrimmedUnits(SplitAt(text, SentenceMatches(text)))
         IN  IF Len(sentences) > 1
             THEN Returns(chunkUnitsWithOverlap(sentences, maxChunkSize, overlap))
             ELSE IF maxChunkSize - overlap <= 0
                  THEN Diverges
                  ELSE Returns(AsChunks(CharWindows(text, maxChunkSize,
                                                    maxChunkSize - overlap)))

\* a JavaScript value passed as text: a string, or something else
JsString(s) == [type |-> "string", value |-> s]

\* the values of the tests that are not strings: null, undefined, 123 and []
NonStrings ==
    {[type |-> t, value |-> <<>>] : t \in {"null", "undefined", "number", "array"}}

\* the optional third argument
Omitted == [given |-> FALSE, value |-> 0]

Given(n) == [given |-> TRUE, value |-> n]

\* overlap ?? 50
OverlapOrDefault(overlap) == IF overlap.given THEN overlap.value ELSE DEFAULT_OVERLAP

semanticChunkDocument(text, maxChunkSize, overlap) ==
    IF text.type # "string" THEN Returns(<<>>)
    ELSE chunkTextBySize(text.value, maxChunkSize, OverlapOrDefault(overlap))

(***************************************************************************)
(* The heading-aware form of the chunker (utils/chunking.ts, findHeadings  *)
(* to splitLargeSection)                                                   *)
(***************************************************************************)
\* the last index of the line that starts at index i (i - 1 when it is empty)
LineEnd(s, i) ==
    LET nls == {j \in i .. Len(s) : s[j] = NL}
    IN  IF nls = {} THEN Len(s) ELSE SetMin(nls) - 1

\* the last index of the match of /^(.*?:|[A-Z][A-Z \-]{2,40}$|\d+\.\s.*$)/gm that
\* starts at the line start i, or 0 when none of the alternatives matches there
\* (the codes 68 .. 77 stand for the digits 0 .. 9)
HeadingEnd(s, i) ==
    LET e == LineEnd(s, i)
        colons == {j \in i .. e : s[j] = COLON}
        IsDigit(c) == c \in 68 .. 77
        IsCapsClass(c) == IsUpper(c) \/ c = 0 \/ c = DASH
        digits == {j \in i .. e : \A k \in i .. j : IsDigit(s[k])}
        d == IF digits = {} THEN i - 1 ELSE SetMax(digits)
    IN  IF colons # {} THEN SetMin(colons)
        ELSE IF /\ e - i + 1 >= 3
                /\ e - i + 1 <= 41
                /\ IsUpper(s[i])
                /\ \A j \in (i + 1) .. e : IsCapsClass(s[j])
             THEN e
        ELSE IF /\ d >= i
                /\ d + 2 <= Len(s)
                /\ s[d + 1] = DOT
                /\ s[d + 2] \in WS
             THEN LineEnd(s, d + 3)
        ELSE 0

\* findHeadings: the heading (the match, trimmed) and the index of every match
findHeadings(text) ==
    LET lineStarts == {i \in 1 .. Len(text) : i = 1 \/ text[i - 1] = NL}
        starts == {i \in lineStarts : HeadingEnd(text, i) > 0}
        endOf == [i \in starts |-> HeadingEnd(text, i)]
        matches == LeftmostMatches(starts, endOf, 1)
    IN  [k \in 1 .. Len(matches) |->
            [heading |-> trim(SubSeq(text, matches[k].start, matches[k].end)),
             index |-> matches[k].start - 1]]

\* extractSections: the text from the end of a heading to the next heading (or the
\* end of the text), without surrounding blank lines and whitespace
extractSections(text, headingMatches) ==
    [i \in 1 .. Len(headingMatches) |->
        LET start == headingMatches[i].index + Len(headingMatches[i].heading)
            end == IF i + 1 <= Len(headingMatches)
                   THEN headingMatches[i + 1].index ELSE Len(text)
        IN  [heading |-> headingMatches[i].heading,
             content |-> trim(SubSeq(text, start + 1, end))]]

\* splitLargeSection: slices of maxChunkSize characters, untrimmed
splitLargeSection(section, maxChunkSize) ==
    LET n == (Len(section.content) + maxChunkSize - 1) \div maxChunkSize
    IN  [k \in 1 .. n |->
            Chunk(Heading(section.heading),
                  SubSeq(section.content, (k - 1) * maxChunkSize + 1,
                         Min(Len(section.content), k * maxChunkSize)))]

\* chunkSection without the branch that keeps a section of empty content
chunkSectionDropEmpty(section, maxChunkSize) ==
    IF Len(section.content) = 0 THEN <<>>
    ELSE IF Len(section.content) > maxChunkSize
         THEN splitLargeSection(section, maxChunkSize)
         ELSE <<Chunk(Heading(section.heading), section.content)>>

\* chunkSection with the test for a large section one off
chunkSectionNoSplit(section, maxChunkSize) ==
    IF Len(section.content) > maxChunkSize + 1
    THEN splitLargeSection(section, maxChunkSize)
    ELSE <<Chunk(Heading(section.heading), section.content)>>

chunkSection(section, maxChunkSize) ==
    IF Len(section.content) = 0
    THEN <<Chunk(Heading(section.heading), section.content)>>
    ELSE IF Len(section.content) > maxChunkSize
         THEN splitLargeSection(section, maxChunkSize)
         ELSE <<Chunk(Heading(section.heading), section.content)>>

\* sections.flatMap((section) => chunkSection(section, maxChunkSize))
RECURSIVE FlatMapChunkSection(_, _, _)
FlatMapChunkSection(sections, k, maxChunkSize) ==
    IF k > Len(sections) THEN <<>>
    ELSE chunkSection(sections[k], maxChunkSize)
             \o FlatMapChunkSection(sections, k + 1, maxChunkSize)

chunkSectionContentsBySize(sections, maxChunkSize) ==
    FlatMapChunkSection(sections, 1, maxChunkSize)

\* the heading-aware semanticChunkDocument(text, maxChunkSize): sections when a
\* heading is found, else windows of maxChunkSize characters
semanticChunkDocumentByHeadings(text, maxChunkSize) ==
    IF Len(text) = 0 \/ trim(text) = <<>> THEN <<>>
    ELSE LET headingMatches == findHeadings(text)
         IN  IF Len(headingMatches) = 0
             THEN AsChunks(CharWindows(text, maxChunkSize, maxChunkSize))
             ELSE chunkSectionContentsBySize(extractSections(text, headingMatches),
                                             maxChunkSize)

(***************************************************************************)
(* Calls of the chunker (specification SpecChunk)                          *)
(***************************************************************************)
MaxTextLen == 3

RECURSIVE JoinWith(_, _)
JoinWith(units, sep) ==
    IF Len(units) = 0 THEN <<>>
    ELSE IF Len(units) = 1 THEN units[1]
    ELSE units[1] \o sep \o JoinWith(Tail(units), sep)

Repeat(c, n) == [i \in 1 .. n |-> c]

\* "a".repeat(2500)
PlainText == Repeat(1, 2500)

\* "A:\nB:\nC:\nSome content."
EmptySectionsText ==
    <<27, COLON, NL, 28, COLON, NL, 29, COLON, NL,
      45, 15, 13, 5, 0, 3, 15, 14, 20, 5, 14, 20, DOT>>

ChunkCall(text, maxChunkSize, overlap) ==
    [text |-> text, maxChunkSize |-> maxChunkSize, overlap |-> overlap]

\* The calls of the chunker that are checked: every text of up to MaxTextLen
\* characters, texts of two or three sentences ("A."  "Bb."  "Cccc!") or bullets
\* ("a"  "b. Cc"  "dddd"), texts with headings of the three kinds, and the long
\* texts of the tests
ChunkCalls ==
    LET alphabet == {1, 27, 0, NL, DOT, DASH, COLON}
        shortTexts == UNION {[1 .. n -> alphabet] : n \in 0 .. MaxTextLen}
        sentences == {<<27, DOT>>, <<28, 2, DOT>>, <<29, 3, 3, 3, EXCL>>}
        bullets == {<<1>>, <<2, DOT, 0, 29, 3>>, <<4, 4, 4, 4>>}
        sentenceTexts ==
            {JoinWith(us, <<0>>) : us \in UNION {[1 .. n -> sentences] : n \in 2 .. 3}}
        bulletTexts ==
            {<<DASH, 0>> \o JoinWith(us, <<NL, STAR, 0>>) :
                us \in UNION {[1 .. n -> bullets] : n \in 2 .. 3}}
        \* "a".repeat(1000) + "   " + "b".repeat(1000)
        boundaryText == Repeat(1, 1000) \o <<0, 0, 0>> \o Repeat(2, 1000)
        \* "Header:\n" + "x".repeat(2500)
        largeSectionText == <<34, 5, 1, 4, 5, 18, COLON, NL>> \o Repeat(24, 2500)
        \* "INTRO\nab\n1. Cd\nabcd"
        headingKindsText ==
            <<35, 40, 46, 44, 41, NL, 1, 2, NL, 69, DOT, 0, 29, 4, NL, 1, 2, 3, 4>>
        overlaps == {Omitted, Given(0), Given(1)}
    IN  {ChunkCall(JsString(s), n, o) :
                s \in shortTexts, n \in {1, 2, 3}, o \in overlaps}
        \cup {ChunkCall(JsString(s), n, o) :
                s \in sentenceTexts \cup bulletTexts, n \in {2, 4, 6, 9}, o \in overlaps}
        \cup {ChunkCall(JsString(s), n, o) :
                s \in {EmptySectionsText, headingKindsText}, n \in {2, 3, 1000},
                o \in overlaps}
        \cup {ChunkCall(JsString(s), n, o) :
                s \in {PlainText, boundaryText, largeSectionText, <<0, 0, 0>>},
                n \in {1000}, o \in {Omitted, Given(0), Given(50)}}
        \cup {ChunkCall(v, n, o) : v \in NonStrings, n \in {1, 1000}, o \in overlaps}

Pending == [pending |-> TRUE]

ChunkIdle ==
    /\ chunkIn = ChunkCall(JsString(<<>>), 1, Omitted)
    /\ chunkOut = Pending
    /\ sectionOut = Pending
    /\ extractIn = [contentType |-> "text/plain", buffer |-> NULL]
    /\ extractOut = Pending

\* semanticChunkDocument(text, maxChunkSize, overlap?) of the overlap-aware chunker
CallSemanticChunkDocument ==
    /\ chunkOut = Pending
    /\ chunkOut' = semanticChunkDocument(chunkIn.text, chunkIn.maxChunkSize,
                                         chunkIn.overlap)
    /\ UNCHANGED <<chunkIn, sectionOut, extractIn, extractOut>>

\* semanticChunkDocument(text, maxChunkSize) of the heading-aware chunker
CallSemanticChunkDocumentByHeadings ==
    /\ sectionOut = Pending
    /\ sectionOut' =
          IF chunkIn.text.type \in {"null", "undefined"}
          THEN Returns(<<>>)                              \* !text
          ELSE IF chunkIn.text.type # "string"
          THEN Throws("text.trim is not a function")
          ELSE Returns(semanticChunkDocumentByHeadings(chunkIn.text.value,
                                                       chunkIn.maxChunkSize))
    /\ UNCHANGED <<chunkIn, chunkOut, extractIn, extractOut>>

(***************************************************************************)
(* Text extraction and normalization (extractText)                         *)
(***************************************************************************)
ContentTypes ==
    {"application/pdf", "application/msword", "text/plain", "image/png"}

isPdf(contentType) == contentType = "application/pdf"

\* contentType.includes("word") || contentType.includes("document")
isWord(contentType) == contentType \in {"application/msword"}

\* contentType.includes("text")
isPlainText(contentType) == contentType \in {"text/plain"}

COMMA == 78

SEMICOLON == 79

\* the characters of s at the indices that Keep accepts
SelectAt(s, Keep(_)) ==
    LET kept == SelectSeq([i \in 1 .. Len(s) |-> i], Keep)
    IN  [k \in 1 .. Len(kept) |-> s[kept[k]]]

\* text.replace(/\s+/g, " ")
collapseWhitespace(s) ==
    LET FirstOfRun(i) == s[i] \notin WS \/ i = 1 \/ s[i - 1] \notin WS
        kept == SelectAt(s, FirstOfRun)
    IN  [k \in 1 .. Len(kept) |-> IF kept[k] \in WS THEN 0 ELSE kept[k]]

\* text.split(" "): the pieces between the spaces, the empty ones included
SplitOnSpace(s) ==
    LET IsSpace(i) == s[i] = 0
        spaces == SelectSeq([i \in 1 .. Len(s) |-> i], IsSpace)
    IN  [k \in 1 .. Len(spaces) + 1 |->
            SubSeq(s, IF k = 1 THEN 1 ELSE spaces[k - 1] + 1,
                      IF k = Len(spaces) + 1 THEN Len(s) ELSE spaces[k] - 1)]

\* .replace(/\s+/g, " ").replace(/ ([.,;:!])/g, "$1").trim()
cleanText(text) ==
    LET collapsed == collapseWhitespace(text)
        NotBeforePunctuation(i) ==
            ~ /\ collapsed[i] = 0
              /\ i < Len(collapsed)
              /\ collapsed[i + 1] \in {DOT, COMMA, SEMICOLON, COLON, EXCL}
    IN  trim(SelectAt(collapsed, NotBeforePunctuation))

\* the normalization of extractText: cleanText, then, when more than half of the
\* words between spaces are single characters, .replace(/(\w)\s(?=\w)/g, "$1")
\* (every whitespace character that stands between two word characters goes;
\* \w is a letter or a digit, the underscore having no code here) and the
\* whitespace is collapsed and trimmed again
normalizeText(text) ==
    LET cleaned == cleanText(text)
        words == SplitOnSpace(cleaned)
        charWords == Cardinality({k \in 1 .. Len(words) : Len(words[k]) = 1})
        IsWordChar(c) == c \in 1 .. 52 \/ c \in 68 .. 77
        NotBetweenWordChars(i) ==
            ~ /\ cleaned[i] \in WS
              /\ i > 1
              /\ i < Len(cleaned)
              /\ IsWordChar(cleaned[i - 1])
              /\ IsWordChar(cleaned[i + 1])
    IN  IF 2 * charWords > Len(words)
        THEN trim(collapseWhitespace(SelectAt(cleaned, NotBetweenWordChars)))
        ELSE cleaned

\* "PDF text extraction failed with LlamaParse and pdf2json. This PDF may be
\* image-based or have a complex format. Please try converting it to a text file
\* or use a different PDF."
PDF_FAILURE_TEXT ==
    <<42, 30, 32, 0, 20, 5, 24, 20, 0, 5, 24, 20, 18, 1, 3, 20, 9, 15, 14, 0,
      6, 1, 9, 12, 5, 4, 0, 23, 9, 20, 8, 0, 38, 12, 1, 13, 1, 42, 1, 18, 19,
      5, 0, 1, 14, 4, 0, 16, 4, 6, 70, 10, 19, 15, 14, DOT, 0, 46, 8, 9, 19, 0,
      42, 30, 32, 0, 13, 1, 25, 0, 2, 5, 0, 9, 13, 1, 7, 5, DASH, 2, 1, 19, 5,
      4, 0, 15, 18, 0, 8, 1, 22, 5, 0, 1, 0, 3, 15, 13, 16, 12, 5, 24, 0, 6,
      15, 18, 13, 1, 20, DOT, 0, 42, 12, 5, 1, 19, 5, 0, 20, 18, 25, 0, 3, 15,
      14, 22, 5, 18, 20, 9, 14, 7, 0, 9, 20, 0, 20, 15, 0, 1, 0, 20, 5, 24, 20,
      0, 6, 9, 12, 5, 0, 15, 18, 0, 21, 19, 5, 0, 1, 0, 4, 9, 6, 6, 5, 18, 5,
      14, 20, 0, 42, 30, 32, DOT>>

\* what an extractor makes of a buffer: it throws, or it returns a text; quality
\* is the extraction-quality score of that text (a rank, higher is better)
Threw == [threw |-> TRUE, text |-> <<>>, quality |-> 0]

Parsed(text, quality) == [threw |-> FALSE, text |-> text, quality |-> quality]

\* extractPdfText: the text of LlamaParseReader, trimmed, when it has any; else
\* the text runs of pdf2json, cleaned, when they have any; else the failure text
extractPdfText(buffer) ==
    IF ~buffer.llama.threw /\ trim(buffer.llama.text) # <<>>
    THEN trim(buffer.llama.text)
    ELSE IF ~buffer.pdf2json.threw /\ trim(buffer.pdf2json.text) # <<>>
         THEN trim(collapseWhitespace(buffer.pdf2json.text))
         ELSE PDF_FAILURE_TEXT

\* an Error (isError) or another thrown value, with its message
Err(message) == [isError |-> TRUE, message |-> message]

\* extractTextFromFile: the extractor for the content type, any error wrapped
extractTextFromFile(buffer, contentType) ==
    IF isPdf(contentType)
    THEN [ok |-> TRUE, text |-> extractPdfText(buffer)]
    ELSE IF isWord(contentType)
    THEN IF buffer.mammoth.threw
         THEN [ok |-> FALSE, error |-> Err("Text extraction failed: extractor error")]
         ELSE [ok |-> TRUE, text |-> buffer.mammoth.text]
    ELSE IF isPlainText(contentType)
    THEN [ok |-> TRUE, text |-> buffer.decoded]
    ELSE [ok |-> FALSE,
          error |-> Err("Text extraction failed: Unsupported file type")]

\* extractText: extraction, the empty-text check, then the normalization
extractText(buffer, contentType) ==
    LET r == extractTextFromFile(buffer, contentType)
    IN  IF ~r.ok THEN r
        ELSE IF trim(r.text) = <<>>
             THEN [ok |-> FALSE,
                   error |-> Err("No text could be extracted from the document")]
             ELSE [ok |-> TRUE, text |-> normalizeText(r.text)]

(***************************************************************************)
(* Calls of extractText (specification SpecExtract)                        *)
(***************************************************************************)
\* the longest text that is normalized, in words
MaxWords == 4

\* the ranks the extraction-quality score gives the texts of the two strategies
QualityScores == 1 .. 2

\* The calls of extractText that are checked: plain texts of up to MaxWords of
\* the words "a", "b", "cd", "e." and ".", one space apart, and some with other
\* whitespace; a PDF for which each extractor throws, returns a blank text or
\* returns a text; a Word file; an image
ExtractCalls ==
    LET words == {<<1>>, <<2>>, <<3, 4>>, <<5, DOT>>, <<DOT>>}
        spaced == {JoinWith(ws, <<0>>) :
                      ws \in UNION {[1 .. n -> words] : n \in 1 .. MaxWords}}
        \* "a  b\nc de ", " a b , cd", "ab  cd e"
        others == {<<1, 0, 0, 2, NL, 3, 0, 4, 5, 0>>, <<0, 1, 0, 2, 0, COMMA, 0, 3, 4>>,
                   <<1, 2, 0, 0, 3, 4, 0, 5>>, <<0, NL>>, <<>>}
        \* "Gas bill", "G a s", " "
        pdfTexts == {<<33, 1, 19, 0, 2, 9, 12, 12>>, <<33, 0, 1, 0, 19, 0>>, <<0>>}
        outcomes == {Threw} \cup {Parsed(t, q) : t \in pdfTexts, q \in QualityScores}
        Call(contentType, decoded, llama, pdf2json, mammoth) ==
            [contentType |-> contentType,
             buffer |-> [decoded |-> decoded, llama |-> llama, pdf2json |-> pdf2json,
                         mammoth |-> mammoth]]
    IN  {Call("text/plain", t, Threw, Threw, Threw) : t \in spaced \cup others}
        \cup {Call("application/pdf", <<>>, l, p, Threw) :
                 l \in outcomes, p \in outcomes}
        \cup {Call("application/msword", <<>>, Threw, Threw, m) :
                 m \in {Threw, Parsed(<<>>, 1), Parsed(<<1, 0, 0, 2>>, 1)}}
        \cup {Call("image/png", <<>>, Threw, Threw, Threw)}

\* extractText(decryptedContent, contentType)
CallExtractText ==
    /\ extractOut = Pending
    /\ extractOut' = extractText(extractIn.buffer, extractIn.contentType)
    /\ UNCHANGED <<chunkIn, chunkOut, sectionOut, extractIn>>

(***************************************************************************)
(* Ingestion: documents, chunks and processDocument                        *)
(***************************************************************************)
Users == {"u1", "u2"}

DocIds == {"d1", "d2"}

\* the two callers of processDocument: the upload route's background
\* processDocumentForRAG and the process-document route
Procs == {"upload", "route"}

\* Character codes: 0 is the space, 1 .. 26 are a .. z, 27 .. 52 are A .. Z.
Car == <<3, 1, 18>>

TaxLaw == <<46, 1, 24, 0, 12, 1, 23>>

\* the characters of the text with the given id, as the bytes of a file decode or
\* as an extractor returns them:
\*   1  "Tax bill .\n\nCar  aa...a"      (1203 characters)
\*   2  three spaces
\*   3  "- Tax law aa...a"               (12000 characters)
\*   4  no character
\*   5  "Gas bill  paid ."               (what LlamaParse reads in bill.pdf)
\*   6  "G a s b i l l p a i d "         (the text runs of pdf2json for bill.pdf)
\*   7  the failure text of extractPdfText
\*   8  "Rent due"                       (rent.pdf, by either extractor)
TextContent ==
    << <<46, 1, 24, 0, 2, 9, 12, 12, 0, DOT, NL, NL, 29, 1, 18, 0, 0>>
           \o Repeat(1, 1186),
       <<0, 0, 0>>,
       <<DASH, 0>> \o TaxLaw \o <<0>> \o Repeat(1, 11990),
       <<>>,
       <<33, 1, 19, 0, 2, 9, 12, 12, 0, 0, 16, 1, 9, 4, 0, DOT>>,
       <<33, 0, 1, 0, 19, 0, 2, 0, 9, 0, 12, 0, 12, 0, 16, 0, 1, 0, 9, 0, 4, 0>>,
       PDF_FAILURE_TEXT,
       <<44, 5, 14, 20, 0, 4, 21, 5>> >>

\* a text as a file record refers to it: [id, length, blank (only whitespace)]
RawText(id) ==
    [id |-> id, length |-> Len(TextContent[id]),
     blank |-> trim(TextContent[id]) = <<>>]

\* The files a user uploads: name, content type, the text its bytes decode to (for
\* a PDF, the text LlamaParse reads in it) and the text of its pdf2json runs.
Files ==
    { [filename |-> "notes.txt", content_type |-> "text/plain",
       text |-> RawText(1), runs |-> RawText(1)],
      [filename |-> "blank.txt", content_type |-> "text/plain",
       text |-> RawText(2), runs |-> RawText(2)],
      [filename |-> "law.doc", content_type |-> "application/msword",
       text |-> RawText(3), runs |-> RawText(3)],
      [filename |-> "scan.png", content_type |-> "image/png",
       text |-> RawText(4), runs |-> RawText(4)],
      [filename |-> "bill.pdf", content_type |-> "application/pdf",
       text |-> RawText(5), runs |-> RawText(6)],
      [filename |-> "rent.pdf", content_type |-> "application/pdf",
       text |-> RawText(8), runs |-> RawText(8)] }

\* the values of Date.now() that name the temporary files of LlamaParse
Timestamps == 1 .. 2

\* which extractors work during one invocation
ExtractEnvs == [llama : BOOLEAN, pdf2json : BOOLEAN, mammoth : BOOLEAN]

AllWork == [llama |-> TRUE, pdf2json |-> TRUE, mammoth |-> TRUE]

\* the outcomes that differ for a file of the content type
ExtractEnvsOf(contentType) ==
    {env \in ExtractEnvs :
        /\ ~isPdf(contentType) => env.llama /\ env.pdf2json
        /\ ~isWord(contentType) => env.mammoth}

\* decryptContent(document), with what each extractor makes of these bytes;
\* LlamaParse reads the temporary file, whose bytes are those of the file loaded
Buffer(file, loaded, env) ==
    [decoded |-> TextContent[file.text.id],
     llama |-> IF env.llama THEN Parsed(TextContent[loaded.text.id], 0) ELSE Threw,
     pdf2json |-> IF env.pdf2json THEN Parsed(TextContent[file.runs.id], 0) ELSE Threw,
     mammoth |-> IF env.mammoth THEN Parsed(TextContent[file.text.id], 0) ELSE Threw]

\* the files the temporary file of an extraction of the file can hold
Loadable(file) ==
    IF isPdf(file.content_type) THEN {f \in Files : isPdf(f.content_type)} ELSE {file}

\* the characters of the extracted text with the given id: every extracted text
\* is one of the texts above, normalized
ExtractedContent == [i \in 1 .. Len(TextContent) |-> normalizeText(TextContent[i])]

\* the result of extractText with the text it returns held as [id, length]
TextRef(r) ==
    IF ~r.ok THEN r
    ELSE [ok |-> TRUE,
          text |-> [id |-> CHOOSE i \in 1 .. Len(ExtractedContent) :
                              ExtractedContent[i] = r.text,
                    length |-> Len(r.text)]]

\* extractText(decryptedContent, document.content_type) for each file, each
\* content of the temporary file and each outcome of the extractors (a table
\* that is computed once: f @@ <<>> is f, written out)
Extractions ==
    [file \in Files |->
        [loaded \in Loadable(file) |->
            [env \in ExtractEnvs |->
                TextRef(extractText(Buffer(file, loaded, env), file.content_type))]
            @@ <<>>]
        @@ <<>>]
    @@ <<>>

\* the error object a datastore call returns in {error}; whether it is an
\* instance of Error depends on the client library
DbErrors == {[isError |-> b, message |-> "db error"] : b \in BOOLEAN}

IdleInv ==
    [pc |-> "idle", documentId |-> NullString, userId |-> NullString, document |-> NULL,
     tmpFile |-> 0, loaded |-> NULL,
     extractEnv |-> AllWork, extractedText |-> NULL, chunks |-> <<>>,
     chunkInserts |-> <<>>, embedFault |-> 0, thrown |-> NULL, inserted |-> {}, result |-> NULL]

IngestIdle ==
    /\ documents = [d \in DocIds |-> NULL]
    /\ document_chunks = <<>>
    /\ inv = [p \in Procs |-> IdleInv]
    /\ calls = 0
    /\ tmpFiles = [t \in Timestamps |-> NULL]

Quiescent == \A p \in Procs : inv[p].pc = "idle"

\* the user who uploads the file that gets each id
Uploader == [d \in DocIds |-> IF d = "d1" THEN "u1" ELSE "u2"]

\* the files that are uploaded under each id
UploadsOf(fileId) ==
    IF fileId = "d1" THEN {f \in Files : f.filename # "rent.pdf"}
    ELSE {f \in Files : f.filename \in {"law.doc", "rent.pdf"}}

\* fetchDocument: select * from documents where id = documentId and user_id = userId
fetchDocumentNoProcessedCheck(docs, documentId, userId) ==
    IF docs[documentId] = NULL \/ docs[documentId].user_id # userId
    THEN [ok |-> FALSE, error |-> Err("Document not found")]
    ELSE [ok |-> TRUE, document |-> docs[documentId]]

fetchDocument(docs, documentId, userId) ==
    IF docs[documentId] = NULL \/ docs[documentId].user_id # userId
    THEN [ok |-> FALSE, error |-> Err("Document not found")]
    ELSE IF docs[documentId].processed
         THEN [ok |-> FALSE, error |-> Err("Document already processed")]
         ELSE [ok |-> TRUE, document |-> docs[documentId]]

CHUNK_SIZE == 800

FALLBACK_OVERLAP == 150

MIN_CHUNK_LENGTH == 50

\* chunkText: the pieces of RecursiveCharacterTextSplitter.splitText (a text that
\* fits in one chunk comes back stripped, as one chunk; a longer one in pieces of
\* at most maxChunkSize), those with chunk.trim().length > 50 only
chunkText(text, maxChunkSize, overlap) ==
    LET pieces == IF Len(text) <= maxChunkSize
                  THEN SelectSeq(<<trim(text)>>, NonEmpty)
                  ELSE CharWindows(text, maxChunkSize, maxChunkSize - overlap)
        LongEnough(chunk) == Len(trim(chunk)) > MIN_CHUNK_LENGTH
    IN  SelectSeq(pieces, LongEnough)

\* the chunks processDocument makes of an extracted text: the contents of
\* semanticChunkDocument(extractedText, 800), or the chunks of chunkText when it
\* returns none
DocumentChunks(text) ==
    LET r == semanticChunkDocument(JsString(text), CHUNK_SIZE, Omitted)
        chunks == [k \in 1 .. Len(r.chunks) |-> r.chunks[k].content]
    IN  IF Len(chunks) = 0 THEN chunkText(text, CHUNK_SIZE, FALLBACK_OVERLAP)
        ELSE chunks

ChunksOfText ==
    [i \in 1 .. Len(ExtractedContent) |-> DocumentChunks(ExtractedContent[i])]

\* the contents of the chunks of a text, as character codes
ChunkContents(text) == ChunksOfText[text.id]

\* Math.ceil(chunk.length / 4)
TokenCount(content) == (Len(content) + 3) \div 4

RECURSIVE EmbedChunksSkipFailed(_, _, _, _, _, _, _)
EmbedChunksSkipFailed(chunks, i, documentId, userId, key, env, faultAt) ==
    IF i > Len(chunks) THEN <<>>
    ELSE LET r == generateEmbedding(chunks[i], key, env)
             rest == EmbedChunksSkipFailed(chunks, i + 1, documentId, userId, key, env, faultAt)
         IN  IF r.threw \/ faultAt = i
             THEN rest
             ELSE <<[document_id |-> documentId, user_id |-> userId,
                     chunk_index |-> i - 1, content |-> chunks[i],
                     token_count |-> TokenCount(chunks[i]),
                     embedding |-> r.embedding]>> \o rest

generateChunkEmbeddingsSkipFailed(chunks, documentId, userId, key, env, faultAt) ==
    [ok |-> TRUE,
     chunkInserts |-> EmbedChunksSkipFailed(chunks, 1, documentId, userId, key, env, faultAt)]

\* generateChunkEmbeddings: one row per chunk, chunk_index = position (0-based).
\* faultAt = i > 0: the call generateEmbedding(chunks[i]) throws (the case the
\* catch of the loop handles); 0: no call throws.
generateChunkEmbeddings(chunks, documentId, userId, key, env, faultAt) ==
    LET embedded == [i \in 1 .. Len(chunks) |-> generateEmbedding(chunks[i], key, env)]
        threwAt == {i \in 1 .. Len(chunks) : embedded[i].threw \/ faultAt = i}
    IN  IF threwAt # {}
        THEN [ok |-> FALSE,
              error |-> Err("Failed to generate embedding for chunk")]
        ELSE [ok |-> TRUE,
              chunkInserts |->
                  [i \in 1 .. Len(chunks) |->
                      [document_id |-> documentId, user_id |-> userId,
                       chunk_index |-> i - 1, content |-> chunks[i],
                       token_count |-> TokenCount(chunks[i]),
                       embedding |-> embedded[i].embedding]]]

\* insert into document_chunks: one statement, the datastore numbers the rows
insertChunks(rows, chunkInserts) ==
    rows \o [i \in 1 .. Len(chunkInserts) |->
                [id |-> Len(rows) + i] @@ chunkInserts[i]]

\* extractedText, whole
SubstringWhole(text) == text

\* extractedText.substring(0, 10000)
Substring10000(text) ==
    [id |-> text.id, length |-> Min(text.length, 10000)]

\* update documents set processed = true, extracted_text = ... where id = documentId
updateDocumentStatus(docs, documentId, extractedText) ==
    [d \in DOMAIN docs |->
        IF d = documentId /\ docs[d] # NULL
        THEN [docs[d] EXCEPT !.processed = TRUE,
                             !.extracted_text = Substring10000(extractedText)]
        ELSE docs[d]]

\* update documents set processing_error = ... where id = documentId
updateDocumentError(docs, documentId, processingError) ==
    [d \in DOMAIN docs |->
        IF d = documentId /\ docs[d] # NULL
        THEN [docs[d] EXCEPT !.processing_error =
                 IF processingError.isError THEN processingError.message
                 ELSE "Unknown error"]
        ELSE docs[d]]

EmbedEnvs ==
    {e \in [providerThrows : BOOLEAN, providerLen : ProviderLengths,
            hashThrows : BOOLEAN, seed : RandomSeeds] :
        e.providerThrows => e.providerLen = EMBED_DIM}

\* the outcomes of the embedding collaborators used during ingestion
IngestEmbedEnvs ==
    {e \in EmbedEnvs :
        /\ e.providerThrows \/ e.providerLen = 100
        /\ ~e.hashThrows
        /\ e.seed = 0}

\* generateChunkEmbeddings(chunks, documentId, userId) for the chunks of each
\* extracted text and each outcome of the embedding calls (a table that is
\* computed once: f @@ <<>> is f, written out)
ChunkEmbeddings ==
    [id \in 1 .. Len(ChunksOfText) |->
        [args \in [documentId : DocIds, userId : Users, key : BOOLEAN,
                   env : IngestEmbedEnvs,
                   faultAt : 0 .. Len(ChunksOfText[id])] |->
            generateChunkEmbeddings(ChunksOfText[id], args.documentId, args.userId,
                                    args.key, args.env, args.faultAt)]
        @@ <<>>]

Throw(p, error) ==
    inv' = [inv EXCEPT ![p].pc = "catch", ![p].thrown = error]

StartInv(p, documentId, userId) ==
    inv' = [inv EXCEPT ![p] = [IdleInv EXCEPT !.pc = "fetch",
                                             !.documentId = documentId,
                                             !.userId = userId]]

\* POST /api/upload: insert the documents row (processed = false) and start
\* processDocumentForRAG(fileId, userId) in the background
Upload(fileId, userId, file) ==
    /\ calls < MaxCalls
    /\ documents[fileId] = NULL
    /\ userId = Uploader[fileId]
    /\ file \in UploadsOf(fileId)
    /\ documents' = [documents EXCEPT ![fileId] =
            [user_id |-> userId, filename |-> file.filename,
             content_type |-> file.content_type, file |-> file,
             processed |-> FALSE, extracted_text |-> NULL, processing_error |-> NullString]]
    /\ StartInv("upload", fileId, userId)
    /\ calls' = calls + 1
    /\ UNCHANGED document_chunks

\* POST /api/process-document {documentId} by the authenticated user
ProcessDocumentRoute(documentId, userId) ==
    /\ calls < MaxCalls
    /\ StartInv("route", documentId, userId)
    /\ calls' = calls + 1
    /\ UNCHANGED <<documents, document_chunks>>

\* processDocument: const document = await fetchDocument(...)
FetchDocument(p) ==
    /\ inv[p].pc = "fetch"
    /\ LET r == fetchDocument(documents, inv[p].documentId, inv[p].userId)
       IN  IF r.ok
           THEN inv' = [inv EXCEPT ![p].pc = "extract", ![p].document = r.document]
           ELSE Throw(p, r.error)
    /\ UNCHANGED <<documents, document_chunks, calls>>

\* decryptContent, extractText and the chunking of the extracted text
\* (extractEnv remembers which extractors worked in this invocation)
ExtractAndChunk(p) ==
    /\ inv[p].pc = "extract"
    /\ \E decryptThrows \in BOOLEAN,
          env \in ExtractEnvsOf(inv[p].document.content_type) :
          IF decryptThrows
          THEN Throw(p, Err("bad decrypt"))
          ELSE \E r \in {Extractions[inv[p].document.file][inv[p].document.file][env]} :
                  IF r.ok
                  THEN inv' = [inv EXCEPT ![p].pc = "embed",
                                          ![p].extractEnv = env,
                                          ![p].extractedText = r.text,
                                          ![p].chunks = ChunkContents(r.text)]
                  ELSE inv' = [inv EXCEPT ![p].pc = "catch",
                                          ![p].extractEnv = env,
                                          ![p].thrown = r.error]
    /\ UNCHANGED <<documents, document_chunks, calls>>

\* const chunkInserts = await generateChunkEmbeddings(chunks, documentId, userId)
GenerateChunkEmbeddings(p) ==
    /\ inv[p].pc = "embed"
    /\ \E env \in IngestEmbedEnvs, faultAt \in 0 .. Len(inv[p].chunks) :
          \E r \in {ChunkEmbeddings[inv[p].extractedText.id][
                       [documentId |-> inv[p].documentId, userId |-> inv[p].userId,
                        key |-> apiKey, env |-> env, faultAt |-> faultAt]]} :
              IF r.ok
              THEN inv' = [inv EXCEPT ![p].pc = "insert",
                                      ![p].embedFault = faultAt,
                                      ![p].chunkInserts = r.chunkInserts]
              ELSE inv' = [inv EXCEPT ![p].pc = "catch",
                                      ![p].embedFault = faultAt,
                                      ![p].thrown = r.error]
    /\ UNCHANGED <<documents, document_chunks, calls>>

\* await insertChunks(supabase, chunkInserts)
InsertChunks(p) ==
    /\ inv[p].pc = "insert"
    /\ \/ /\ document_chunks' = insertChunks(document_chunks, inv[p].chunkInserts)
          /\ inv' = [inv EXCEPT ![p].pc = "status",
                                ![p].inserted =
                                    (Len(document_chunks) + 1) ..
                                    (Len(document_chunks) + Len(inv[p].chunkInserts))]
       \/ /\ Throw(p, Err("Failed to store document chunks: db error"))
          /\ UNCHANGED document_chunks
    /\ UNCHANGED <<documents, calls>>

\* await updateDocumentStatus(supabase, documentId, extractedText); return {...}
UpdateDocumentStatus(p) ==
    /\ inv[p].pc = "status"
    /\ \/ /\ documents' = updateDocumentStatus(documents, inv[p].documentId,
                                               inv[p].extractedText)
          /\ inv' = [inv EXCEPT ![p].pc = "done",
                                ![p].result =
                                    [success |-> TRUE,
                                     chunks |-> Len(inv[p].chunks),
                                     extractedLength |-> inv[p].extractedText.length]]
       \/ /\ \E error \in DbErrors : Throw(p, error)
          /\ UNCHANGED documents
    /\ UNCHANGED <<document_chunks, calls>>

\* catch (processingError) { await updateDocumentError(...); throw processingError }
\* The result of the update is not looked at: a failed update changes nothing.
CatchProcessingError(p) ==
    /\ inv[p].pc = "catch"
    /\ \/ documents' = updateDocumentError(documents, inv[p].documentId, inv[p].thrown)
       \/ UNCHANGED documents
    /\ inv' = [inv EXCEPT ![p].pc = IF p = "upload" THEN "rejected" ELSE "done"]
    /\ UNCHANGED <<document_chunks, calls>>

\* upload route: processDocumentForRAG(...).catch(...) records the error again
UploadCatch ==
    /\ inv["upload"].pc = "rejected"
    /\ \/ documents' = [documents EXCEPT ![inv["upload"].documentId].processing_error =
                            IF inv["upload"].thrown.isError
                            THEN inv["upload"].thrown.message
                            ELSE "Processing failed"]
       \/ UNCHANGED documents
    /\ inv' = [inv EXCEPT !["upload"].pc = "done"]
    /\ UNCHANGED <<document_chunks, calls>>

(***************************************************************************)
(* extractPdfText between its awaits, for invocations that overlap         *)
(***************************************************************************)
\* decryptContent and extractPdfText up to the call of loadData:
\* tmpFile = path.join(tmpDir, `llamaparse_${Date.now()}.pdf`);
\* fs.writeFileSync(tmpFile, buffer)
WriteTmpFile(p) ==
    /\ inv[p].pc = "extract"
    /\ isPdf(inv[p].document.content_type)
    /\ \E decryptThrows \in BOOLEAN, now \in Timestamps :
          IF decryptThrows
          THEN Throw(p, Err("bad decrypt")) /\ UNCHANGED tmpFiles
          ELSE /\ tmpFiles' = [tmpFiles EXCEPT ![now] = inv[p].document.file]
               /\ inv' = [inv EXCEPT ![p].pc = "load", ![p].tmpFile = now]
    /\ UNCHANGED <<documents, document_chunks, calls>>

\* await reader.loadData(tmpFile): the reader opens the file that is at the path
\* when it gets to it (none: loadData throws)
LoadData(p) ==
    /\ inv[p].pc = "load"
    /\ inv' = [inv EXCEPT ![p].pc = "loaded",
                          ![p].loaded = tmpFiles[inv[p].tmpFile]]
    /\ UNCHANGED <<documents, document_chunks, calls, tmpFiles>>

\* loadData returns or throws; fs.unlinkSync(tmpFile), which throws when the file
\* is gone; either throw lands in the catch and pdf2json is tried on the buffer;
\* then the rest of extractText and the chunking
FinishExtractPdf(p) ==
    /\ inv[p].pc = "loaded"
    /\ \E env \in ExtractEnvsOf(inv[p].document.content_type) :
          LET file == inv[p].document.file
              loadThrows == inv[p].loaded = NULL \/ ~env.llama
              unlinkThrows == ~loadThrows /\ tmpFiles[inv[p].tmpFile] = NULL
              outcome == [env EXCEPT !.llama = ~loadThrows /\ ~unlinkThrows]
              loaded == IF inv[p].loaded = NULL THEN file ELSE inv[p].loaded
          IN  /\ tmpFiles' = IF loadThrows THEN tmpFiles
                             ELSE [tmpFiles EXCEPT ![inv[p].tmpFile] = NULL]
              /\ \E r \in {Extractions[file][loaded][outcome]} :
                 IF r.ok
                 THEN inv' = [inv EXCEPT ![p].pc = "embed",
                                         ![p].extractEnv = outcome,
                                         ![p].extractedText = r.text,
                                         ![p].chunks = ChunkContents(r.text)]
                 ELSE inv' = [inv EXCEPT ![p].pc = "catch",
                                         ![p].extractEnv = outcome,
                                         ![p].thrown = r.error]
    /\ UNCHANGED <<documents, document_chunks, calls>>

(***************************************************************************)
(* Retrieval: searchDocuments of the chat route                            *)
(***************************************************************************)
MATCH_COUNT == 5

KEYWORD_LIMIT == 10

LISTING_LIMIT == 5

\* "Tax", "Car", "an", "Zoo at", "Tax bill." (the first chunk of notes.txt)
Queries ==
    {<<46, 1, 24>>, Car, <<1, 14>>, <<52, 15, 15, 0, 1, 20>>,
     <<46, 1, 24, 0, 2, 9, 12, 12, DOT>>}

ToLower(c) == IF c > 26 THEN c - 26 ELSE c

toLowerCase(str) == [i \in 1 .. Len(str) |-> ToLower(str[i])]

\* str.split(/\s+/): the pieces between runs of spaces, from position i on, cur
\* being the piece read so far
RECURSIVE SplitWhitespace(_, _, _)
SplitWhitespace(str, i, cur) ==
    IF i > Len(str) THEN <<cur>>
    ELSE IF str[i] = 0
         THEN IF i > 1 /\ str[i - 1] = 0
              THEN SplitWhitespace(str, i + 1, cur)
              ELSE <<cur>> \o SplitWhitespace(str, i + 1, <<>>)
         ELSE SplitWhitespace(str, i + 1, Append(cur, str[i]))

LongerThan2(word) == Len(word) > 2

\* query.toLowerCase().split(/\s+/).filter((word) => word.length > 2)
Keywords(query) == SelectSeq(SplitWhitespace(toLowerCase(query), 1, <<>>), LongerThan2)

Contains(str, sub) ==
    \E k \in 0 .. (Len(str) - Len(sub)) : SubSeq(str, k + 1, k + Len(sub)) = sub

\* content ILIKE %keyword%
ILike(content, keyword) == Contains(toLowerCase(content), toLowerCase(keyword))

\* the sum of a[i] * b[i] for i in lo .. hi
RECURSIVE DotRange(_, _, _, _)
DotRange(a, b, lo, hi) ==
    IF lo > hi THEN 0
    ELSE IF lo = hi THEN a[lo] * b[lo]
    ELSE LET mid == (lo + hi) \div 2
         IN  DotRange(a, b, lo, mid) + DotRange(a, b, mid + 1, hi)

Dot(a, b) == DotRange(a, b, 1, Min(Len(a), Len(b)))

\* 1 - (a <=> b) > num / den, the cosine similarity above a threshold
SimilarityAbove(a, b, num, den) ==
    /\ Dot(a, b) > 0
    /\ den * den * Dot(a, b) * Dot(a, b) > num * num * Dot(a, a) * Dot(b, b)

\* row i is at most as far from q as row j (both similarities positive); equal
\* distances are ordered by row id
CloserOrEqual(rows, q, i, j) ==
    LET di == Dot(rows[i].embedding, q)
        dj == Dot(rows[j].embedding, q)
        ni == Dot(rows[i].embedding, rows[i].embedding)
        nj == Dot(rows[j].embedding, rows[j].embedding)
    IN  \/ di * di * nj > dj * dj * ni
        \/ di * di * nj = dj * dj * ni /\ i <= j

RECURSIVE OrderByDistance(_, _, _)
OrderByDistance(rows, q, set) ==
    IF set = {} THEN <<>>
    ELSE LET best == CHOOSE i \in set : \A j \in set : CloserOrEqual(rows, q, i, j)
         IN  <<best>> \o OrderByDistance(rows, q, set \ {best})

RECURSIVE OrderByChunkIndex(_, _)
OrderByChunkIndex(rows, set) ==
    IF set = {} THEN <<>>
    ELSE LET first == CHOOSE i \in set : \A j \in set :
                          \/ rows[i].chunk_index < rows[j].chunk_index
                          \/ rows[i].chunk_index = rows[j].chunk_index /\ i <= j
         IN  <<first>> \o OrderByChunkIndex(rows, set \ {first})

RECURSIVE InTableOrder(_)
InTableOrder(set) ==
    IF set = {} THEN <<>>
    ELSE LET first == CHOOSE i \in set : \A j \in set : i <= j
         IN  <<first>> \o InTableOrder(set \ {first})

Limit(seq, n) == SubSeq(seq, 1, Min(Len(seq), n))

\* the row returned for chunk row i: content, chunk_index and the parent document
Selected(docs, rows, order) ==
    [k \in 1 .. Len(order) |->
        [content |-> rows[order[k]].content,
         chunk_index |-> rows[order[k]].chunk_index,
         documents |-> [filename |-> docs[rows[order[k]].document_id].filename,
                        id |-> rows[order[k]].document_id]]]

\* RPC search_documents(query_embedding, user_id, match_threshold 0.5, match_count)
SearchDocumentsRpcAnyUser(docs, rows, query_embedding, user_id, match_count) ==
    LET hits == {i \in 1 .. Len(rows) :
                    /\ docs[rows[i].document_id] # NULL
                    /\ SimilarityAbove(rows[i].embedding, query_embedding, 1, 2)}
    IN  Selected(docs, rows, Limit(OrderByDistance(rows, query_embedding, hits), match_count))

SearchDocumentsRpc(docs, rows, query_embedding, user_id, match_count) ==
    LET hits == {i \in 1 .. Len(rows) :
                    /\ docs[rows[i].document_id] # NULL
                    /\ rows[i].user_id = user_id
                    /\ SimilarityAbove(rows[i].embedding, query_embedding, 1, 2)}
    IN  Selected(docs, rows, Limit(OrderByDistance(rows, query_embedding, hits), match_count))

\* from document_chunks where user_id = userId and (content ilike any keyword) limit n
KeywordQuery(docs, rows, keywords, userId, n) ==
    LET hits == {i \in 1 .. Len(rows) :
                    /\ rows[i].user_id = userId
                    /\ \E k \in 1 .. Len(keywords) : ILike(rows[i].content, keywords[k])}
    IN  Selected(docs, rows, Limit(InTableOrder(hits), n))

\* from document_chunks where user_id = userId order by chunk_index limit n
ListingQuery(docs, rows, userId, n) ==
    LET hits == {i \in 1 .. Len(rows) : rows[i].user_id = userId}
    IN  Selected(docs, rows, Limit(OrderByChunkIndex(rows, hits), n))

\* a local that is undefined, or holds an array of rows
Undefined == [defined |-> FALSE, rows |-> <<>>]

Defined(rows) == [defined |-> TRUE, rows |-> rows]

NeedsFallbackAlways(chunks) == TRUE

\* chunks.length === 0 without the test for undefined
NeedsFallbackEmptyOnly(chunks) == chunks.defined /\ Len(chunks.rows) = 0

\* !chunks || chunks.length === 0
NeedsFallback(chunks) == ~chunks.defined \/ Len(chunks.rows) = 0

SearchIdle ==
    /\ searchPc = "idle"
    /\ searchQuery = <<>>
    /\ searchUser = NullString
    /\ queryEmbedding = <<>>
    /\ searchChunks = Undefined
    /\ stageLog = <<>>
    /\ searchResult = Undefined
    /\ searches = 0
    /\ documentContext = <<>>

Logged(stage, failed, rows) == [stage |-> stage, error |-> failed, rows |-> rows]

\* POST /api/chat: const relevantChunks = await searchDocuments(message, user.id)
\* createClient() may throw: the outer catch of searchDocuments then returns []
SearchDocuments(query, userId) ==
    /\ searchPc \in {"idle", "context"}
    /\ searches < MaxSearches
    /\ searches' = searches + 1
    /\ searchQuery' = query
    /\ searchUser' = userId
    /\ queryEmbedding' = <<>>
    /\ searchChunks' = Undefined
    /\ stageLog' = <<>>
    /\ documentContext' = <<>>
    /\ \E clientThrows \in BOOLEAN :
          IF clientThrows
          THEN searchPc' = "done" /\ searchResult' = Defined(<<>>)
          ELSE searchPc' = "embed" /\ searchResult' = Undefined

\* the query embedding: the provider's vector cut or padded to 384 entries when
\* the key is set and the call succeeds, else left empty
EmbedQuery ==
    /\ searchPc = "embed"
    /\ \E providerThrows \in BOOLEAN, providerLen \in ProviderLengths :
          queryEmbedding' =
              IF apiKey /\ ~providerThrows
              THEN padOrTruncateEmbedding(ProviderVector(searchQuery, providerLen),
                                          EMBED_DIM)
              ELSE <<>>
    /\ searchPc' = "vector"
    /\ UNCHANGED <<searchQuery, searchUser, searchChunks, stageLog, searchResult,
                   searches, documentContext>>

\* if (queryEmbedding.length > 0) { rpc("search_documents", ...) }
VectorSearch ==
    /\ searchPc = "vector"
    /\ IF Len(queryEmbedding) > 0
       THEN \/ LET data == SearchDocumentsRpc(documents, document_chunks,
                                              queryEmbedding, searchUser, MATCH_COUNT)
               IN  /\ searchChunks' = Defined(data)
                   /\ stageLog' = Append(stageLog, Logged("vector", FALSE, data))
            \/ /\ searchChunks' = searchChunks
               /\ stageLog' = Append(stageLog, Logged("vector", TRUE, <<>>))
       ELSE UNCHANGED <<searchChunks, stageLog>>
    /\ searchPc' = "keyword"
    /\ UNCHANGED <<searchQuery, searchUser, queryEmbedding, searchResult, searches,
                   documentContext>>

\* if (!chunks || chunks.length === 0) { keyword search when there are keywords }
\* else return chunks
KeywordSearch ==
    /\ searchPc = "keyword"
    /\ IF NeedsFallback(searchChunks)
       THEN /\ searchPc' = "listing"
            /\ searchResult' = searchResult
            /\ IF Len(Keywords(searchQuery)) > 0
               THEN \/ LET data == KeywordQuery(documents, document_chunks,
                                                Keywords(searchQuery), searchUser,
                                                KEYWORD_LIMIT)
                       IN  /\ searchChunks' = Defined(data)
                           /\ stageLog' = Append(stageLog, Logged("keyword", FALSE, data))
                    \/ /\ searchChunks' = searchChunks
                       /\ stageLog' = Append(stageLog, Logged("keyword", TRUE, <<>>))
               ELSE UNCHANGED <<searchChunks, stageLog>>
       ELSE /\ searchPc' = "done"
            /\ searchResult' = Defined(searchChunks.rows)
            /\ UNCHANGED <<searchChunks, stageLog>>
    /\ UNCHANGED <<searchQuery, searchUser, queryEmbedding, searches, documentContext>>

\* if (!chunks || chunks.length === 0) { listing; on error return [] }
\* return chunks || []
ListingSearch ==
    /\ searchPc = "listing"
    /\ searchPc' = "done"
    /\ IF NeedsFallback(searchChunks)
       THEN \/ LET data == ListingQuery(documents, document_chunks, searchUser,
                                        LISTING_LIMIT)
               IN  /\ searchChunks' = Defined(data)
                   /\ stageLog' = Append(stageLog, Logged("listing", FALSE, data))
                   /\ searchResult' = Defined(data)
            \/ /\ searchChunks' = searchChunks
               /\ stageLog' = Append(stageLog, Logged("listing", TRUE, <<>>))
               /\ searchResult' = Defined(<<>>)
       ELSE /\ searchResult' = Defined(searchChunks.rows)
            /\ UNCHANGED <<searchChunks, stageLog>>
    /\ UNCHANGED <<searchQuery, searchUser, queryEmbedding, searches, documentContext>>

\* the value undefined of a string-valued expression; a template literal renders
\* it as the text "undefined"
JsUndefined == "undefined"

\* a parent-document field of array shape
JsArray(elems) == [elems |-> elems]

\* Array.isArray(chunk.documents)
IsArray(v) == "elems" \in DOMAIN v

\* o?.filename
OptionalFilename(o) == IF "filename" \in DOMAIN o THEN o.filename ELSE JsUndefined

\* v || fallback
OrElse(v, fallback) == IF v \in {JsUndefined, ""} THEN fallback ELSE v

\* Array.isArray(d) ? d[0]?.filename : d?.filename || "Unknown"
\* (the conditional binds weaker than ||)
ContextFilename(d) ==
    IF IsArray(d)
    THEN IF Len(d.elems) = 0 THEN JsUndefined ELSE OptionalFilename(d.elems[1])
    ELSE OrElse(OptionalFilename(d), "Unknown")

\* `Document: ${filename}\nContent: ${chunk.content}`
ContextEntry(chunk) ==
    [label |-> ContextFilename(chunk.documents), content |-> chunk.content]

\* POST /api/chat after searchDocuments returned: the entries of documentContext
BuildContext ==
    /\ searchPc = "done"
    /\ searchPc' = "context"
    /\ documentContext' =
          [k \in 1 .. Len(searchResult.rows) |-> ContextEntry(searchResult.rows[k])]
    /\ UNCHANGED <<searchQuery, searchUser, queryEmbedding, searchChunks, stageLog,
                   searchResult, searches>>

\* the rows a finished ingestion of file leaves for document d of user u
IngestedRows(rows, d, u, text, embeddings) ==
    insertChunks(rows,
        embeddings[text.id][
            [documentId |-> d, userId |-> u, key |-> TRUE,
             env |-> [providerThrows |-> FALSE, providerLen |-> 100,
                      hashThrows |-> FALSE, seed |-> 0],
             faultAt |-> 0]].chunkInserts)

ProcessedRow(u, file, text) ==
    [user_id |-> u, filename |-> file.filename, content_type |-> file.content_type,
     file |-> file, processed |-> TRUE, extracted_text |-> Substring10000(text),
     processing_error |-> NullString]

NotesFile == CHOOSE f \in Files : f.filename = "notes.txt"

LawFile == CHOOSE f \in Files : f.filename = "law.doc"

\* the datastore when searching starts: empty, or after the ingestion of one
\* document of each user
SearchInit ==
    /\ ChunkIdle
    /\ apiKey \in BOOLEAN
    /\ embedText = <<1>>
    /\ embedCalls = 0
    /\ prevEmbed = NULL
    /\ lastEmbed = NULL
    /\ inv = [p \in Procs |-> IdleInv]
    /\ calls = 0
    /\ tmpFiles = [t \in Timestamps |-> NULL]
    /\ \/ /\ documents = [d \in DocIds |-> NULL]
          /\ document_chunks = <<>>
       \/ \E extractions \in {Extractions}, embeddings \in {ChunkEmbeddings} :
             LET notes == extractions[NotesFile][NotesFile][AllWork].text
                 law == extractions[LawFile][LawFile][AllWork].text
             IN  /\ documents = [d \in DocIds |->
                                    IF d = "d1" THEN ProcessedRow("u1", NotesFile, notes)
                                    ELSE ProcessedRow("u2", LawFile, law)]
                 /\ document_chunks =
                       IngestedRows(IngestedRows(<<>>, "d1", "u1", notes, embeddings),
                                    "d2", "u2", law, embeddings)
    /\ SearchIdle

(***************************************************************************)
(* Claims about retrieval (specification SpecSearch)                       *)
(***************************************************************************)
StageRank(stage) ==
    CASE stage = "vector" -> 1
      [] stage = "keyword" -> 2
      [] stage = "listing" -> 3

\* the stages of the current call that produced at least one row
Producing == {i \in 1 .. Len(stageLog) : Len(stageLog[i].rows) > 0}

\* C10: the stages are queried in the order vector, keyword, listing; a stage is
\* queried only if every stage queried before it produced no row; the rows returned
\* are those of the first stage that produced a row.
C10_CascadeOrder ==
    /\ \A i, j \in 1 .. Len(stageLog) :
          i < j => /\ StageRank(stageLog[i].stage) < StageRank(stageLog[j].stage)
                   /\ Len(stageLog[i].rows) = 0
    /\ searchPc = "done" =>
          /\ searchResult.defined
          /\ IF Producing = {}
             THEN searchResult.rows = <<>>
             ELSE \E i \in Producing :
                     /\ \A j \in Producing : i <= j
                     /\ searchResult.rows = stageLog[i].rows

C10_Witness ==
    /\ searchPc = "done"
    /\ Len(stageLog) = 3
    /\ ~stageLog[1].error
    /\ ~stageLog[2].error
    /\ Len(stageLog[3].rows) = 2
    /\ searchResult.rows = stageLog[3].rows

\* the vector stage answers a query with rows
VectorStageHit ==
    /\ searchPc = "done"
    /\ Len(stageLog) = 1
    /\ stageLog[1].stage = "vector"
    /\ Len(searchResult.rows) > 0

\* the search has returned to POST /api/chat
Returned == searchPc \in {"done", "context"}

\* C11: whenever the rows returned are those of the keyword stage, a vector search
\* was issued earlier in the same retrieval.
C11_VectorBeforeKeyword ==
    \A i \in 1 .. Len(stageLog) :
        ( /\ Returned
          /\ stageLog[i].stage = "keyword"
          /\ Len(stageLog[i].rows) > 0
          /\ searchResult.rows = stageLog[i].rows )
        => \E j \in 1 .. (i - 1) : stageLog[j].stage = "vector"

\* C12 as stated: an empty result is returned only if the vector, the keyword and
\* the listing stage all errored (checked where the statement is at its strongest:
\* the retrieval reached the datastore and the user owns at least one chunk).
C12_EmptyOnlyIfAllStagesErrored ==
    ( /\ Returned
      /\ searchResult.rows = <<>>
      /\ stageLog # <<>>
      /\ \E i \in 1 .. Len(document_chunks) : document_chunks[i].user_id = searchUser )
    => /\ Len(stageLog) = 3
       /\ \A i \in 1 .. 3 : stageLog[i].error

\* C12 amended: no stage failure surfaces (a result is always returned), a stage
\* that errored before the listing is followed by a later stage, and an empty
\* result is returned only if the client could not be created (no stage was
\* queried) or the listing stage, reached last, errored or found no row.
C12_StageFailureRecovered ==
    Returned =>
        /\ searchResult.defined
        /\ \A i \in 1 .. Len(stageLog) :
              (stageLog[i].error /\ stageLog[i].stage # "listing")
                  => i < Len(stageLog)
        /\ searchResult.rows = <<>> =>
              \/ stageLog = <<>>
              \/ /\ stageLog[Len(stageLog)].stage = "listing"
                 /\ stageLog[Len(stageLog)].error
                       \/ stageLog[Len(stageLog)].rows = <<>>

C12_Witness ==
    /\ searchPc = "done"
    /\ Len(stageLog) = 3
    /\ stageLog[1].error
    /\ stageLog[2].error
    /\ ~stageLog[3].error
    /\ Len(searchResult.rows) > 0

OwnedBy(r, u) == r.user_id = u

\* the chunk rows of user u, in table order
OwnRows(rows, u) == SelectSeq(rows, LAMBDA r : OwnedBy(r, u))

\* what the query of a stage returns on the table rows
StageQuery(stage, rows) ==
    CASE stage = "vector" ->
            SearchDocumentsRpc(documents, rows, queryEmbedding, searchUser, MATCH_COUNT)
      [] stage = "keyword" ->
            KeywordQuery(documents, rows, Keywords(searchQuery), searchUser,
                         KEYWORD_LIMIT)
      [] stage = "listing" ->
            ListingQuery(documents, rows, searchUser, LISTING_LIMIT)

\* C13: every row a stage produced, and every row returned, belongs to a document
\* of the requesting user, and equals what the same query returns when the rows of
\* all other users are removed from the table.
C13_OwnerScoped ==
    /\ \A i \in 1 .. Len(stageLog) :
          /\ \A k \in 1 .. Len(stageLog[i].rows) :
                documents[stageLog[i].rows[k].documents.id].user_id = searchUser
          /\ ~stageLog[i].error =>
                stageLog[i].rows =
                    StageQuery(stageLog[i].stage, OwnRows(document_chunks, searchUser))
    /\ Returned =>
          \A k \in 1 .. Len(searchResult.rows) :
              documents[searchResult.rows[k].documents.id].user_id = searchUser

\* a keyword search returned rows while another user stores a chunk that matches
\* the same keyword
C13_Witness ==
    /\ searchPc = "done"
    /\ Len(searchResult.rows) > 0
    /\ \E i \in 1 .. Len(stageLog) :
          /\ stageLog[i].stage = "keyword"
          /\ searchResult.rows = stageLog[i].rows
    /\ \E i \in 1 .. Len(document_chunks) :
          /\ document_chunks[i].user_id # searchUser
          /\ \E k \in 1 .. Len(Keywords(searchQuery)) :
                ILike(document_chunks[i].content, Keywords(searchQuery)[k])

SearchNext ==
    \/ /\ \E q \in Queries, u \in Users : SearchDocuments(q, u)
       /\ UNCHANGED <<embedVars, ingestVars, chunkVars>>
    \/ EmbedQuery /\ UNCHANGED <<embedVars, ingestVars, chunkVars>>
    \/ VectorSearch /\ UNCHANGED <<embedVars, ingestVars, chunkVars>>
    \/ KeywordSearch /\ UNCHANGED <<embedVars, ingestVars, chunkVars>>
    \/ ListingSearch /\ UNCHANGED <<embedVars, ingestVars, chunkVars>>
    \/ BuildContext /\ UNCHANGED <<embedVars, ingestVars, chunkVars>>

SpecSearch == SearchInit /\ [][SearchNext]_vars

(***************************************************************************)
(* The context labels of POST /api/chat (specification SpecLabel)          *)
(***************************************************************************)
\* the values the type DocumentChunk admits for the field documents: absent, one
\* object, or an array of objects; a filename may be missing or empty at run time
ParentObjects ==
    {[filename |-> "notes.txt", id |-> "d1"], [filename |-> "", id |-> "d1"],
     [id |-> "d1"]}

DocumentsShapes ==
    {[absent |-> TRUE]} \cup ParentObjects
        \cup {JsArray(<<>>)}
        \cup {JsArray(<<o>>) : o \in ParentObjects}
        \cup {JsArray(<<[filename |-> "law.doc", id |-> "d2"], o>>) : o \in ParentObjects}

RelevantChunk(d) == [content |-> Car, chunk_index |-> 0, documents |-> d]

\* the filename of the parent document of a chunk, when it has one
ParentFilename(d) ==
    IF IsArray(d)
    THEN IF Len(d.elems) = 0 THEN JsUndefined ELSE OptionalFilename(d.elems[1])
    ELSE OptionalFilename(d)

\* C14: every entry of the context is labelled with the filename of the chunk's
\* parent document when there is one, and with "Unknown" otherwise, for the object
\* shape and for the array shape of the field.
C14_LabelFilenameOrUnknown ==
    searchPc = "context" =>
        \A k \in 1 .. Len(documentContext) :
            LET f == ParentFilename(searchResult.rows[k].documents)
            IN  documentContext[k].label =
                    IF f \in {JsUndefined, ""} THEN "Unknown" ELSE f

\* searchDocuments has returned one or two chunks to POST /api/chat
LabelInit ==
    /\ ChunkIdle
    /\ IngestIdle
    /\ apiKey \in BOOLEAN
    /\ embedText = <<1>>
    /\ embedCalls = 0
    /\ prevEmbed = NULL
    /\ lastEmbed = NULL
    /\ searchPc = "done"
    /\ searchQuery = Car
    /\ searchUser = "u1"
    /\ queryEmbedding = <<>>
    /\ searchChunks = Undefined
    /\ stageLog = <<>>
    /\ searches = 1
    /\ documentContext = <<>>
    /\ \E a \in DocumentsShapes :
          \/ searchResult = Defined(<<RelevantChunk(a)>>)
          \/ \E b \in DocumentsShapes :
                searchResult = Defined(<<RelevantChunk(a), RelevantChunk(b)>>)

LabelNext == BuildContext /\ UNCHANGED <<embedVars, ingestVars, chunkVars>>

SpecLabel == LabelInit /\ [][LabelNext]_vars

ChunkInit ==
    /\ IngestIdle
    /\ SearchIdle
    /\ apiKey = FALSE
    /\ embedText = <<1>>
    /\ embedCalls = 0
    /\ prevEmbed = NULL
    /\ lastEmbed = NULL
    /\ chunkIn \in ChunkCalls
    /\ chunkOut = Pending
    /\ sectionOut = Pending
    /\ extractIn = [contentType |-> "text/plain", buffer |-> NULL]
    /\ extractOut = Pending

ChunkNext ==
    \/ CallSemanticChunkDocument /\ UNCHANGED <<embedVars, ingestVars, searchVars>>
    \/ CallSemanticChunkDocumentByHeadings
          /\ UNCHANGED <<embedVars, ingestVars, searchVars>>

SpecChunk == ChunkInit /\ [][ChunkNext]_vars

ExtractInit ==
    /\ IngestIdle
    /\ SearchIdle
    /\ apiKey = FALSE
    /\ embedText = <<1>>
    /\ embedCalls = 0
    /\ prevEmbed = NULL
    /\ lastEmbed = NULL
    /\ chunkIn = ChunkCall(JsString(<<>>), 1, Omitted)
    /\ chunkOut = Pending
    /\ sectionOut = Pending
    /\ extractIn \in ExtractCalls
    /\ extractOut = Pending

ExtractNext == CallExtractText /\ UNCHANGED <<embedVars, ingestVars, searchVars>>

SpecExtract == ExtractInit /\ [][ExtractNext]_vars

(***************************************************************************)
(* Claims about the chunker (specification SpecChunk)                      *)
(***************************************************************************)
Chunked == chunkOut # Pending /\ chunkOut.terminates

\* the atomic units of a text: its bullets, else its sentences when there are
\* at least two, else none (the text takes the character fallback)
AtomicUnits(text) ==
    IF BulletStarts(text) # {}
    THEN TrimmedUnits(SplitAt(text, BulletMatches(text)))
    ELSE LET sentences == TrimmedUnits(SplitAt(text, SentenceMatches(text)))
         IN  IF Len(sentences) > 1 THEN sentences ELSE <<>>

Range(seq) == {seq[k] : k \in 1 .. Len(seq)}

OneOversizeUnit(content, text, maxChunkSize) ==
    Len(content) > maxChunkSize /\ content \in Range(AtomicUnits(text))

\* C15: every chunk the chunker returns is at most maxSize long, except a chunk
\* that is exactly one atomic unit (bullet or sentence) itself longer than maxSize;
\* an overlap fragment joined to the next unit never makes a longer chunk
C15_ChunkWithinMaxSize ==
    Chunked =>
        \A k \in 1 .. Len(chunkOut.chunks) :
            \/ Len(chunkOut.chunks[k].content) <= chunkIn.maxChunkSize
            \/ OneOversizeUnit(chunkOut.chunks[k].content, chunkIn.text.value,
                               chunkIn.maxChunkSize)

\* a call on units with an overlap where one chunk is an oversize unit and where
\* a unit that fits was emitted alone because the overlap fragment of the chunk
\* before it, joined to it, would not fit
C15_Witness ==
    /\ Chunked
    /\ OverlapOrDefault(chunkIn.overlap) > 0
    /\ Len(AtomicUnits(chunkIn.text.value)) > 1
    /\ \E k \in 1 .. Len(chunkOut.chunks) :
          OneOversizeUnit(chunkOut.chunks[k].content, chunkIn.text.value,
                          chunkIn.maxChunkSize)
    /\ \E k \in 2 .. Len(chunkOut.chunks) :
          /\ chunkOut.chunks[k].content \in Range(AtomicUnits(chunkIn.text.value))
          /\ Len(chunkOut.chunks[k].content) <= chunkIn.maxChunkSize
          /\ Len(getOverlapChunk(chunkOut.chunks[k - 1].content)) + 1
                + Len(chunkOut.chunks[k].content) > chunkIn.maxChunkSize

\* the text has no bullet and fewer than two sentences
CharPath(text) ==
    /\ Len(text) > 0
    /\ BulletStarts(text) = {}
    /\ Len(TrimmedUnits(SplitAt(text, SentenceMatches(text)))) < 2

\* text.slice(i, i + maxChunkSize).trim()
Window(text, i, maxChunkSize) ==
    trim(SubSeq(text, i + 1, Min(Len(text), i + maxChunkSize)))

Lengths(chunks) == [k \in 1 .. Len(chunks) |-> Len(chunks[k].content)]

RECURSIVE ConcatContents(_)
ConcatContents(chunks) ==
    IF Len(chunks) = 0 THEN <<>>
    ELSE chunks[1].content \o ConcatContents(Tail(chunks))

IsNonWs(c) == c \notin WS

\* C17: called with (text, maxSize) only, on text that takes the character
\* fallback, the chunker returns windows whose contents, one after the other, are
\* the input with no character lost or duplicated (whitespace at the edges of a
\* window apart): 2500 characters with maxSize 1000 give 1000, 1000 and 500
C17_CharPathReconstructsInput ==
    (Chunked /\ chunkIn.overlap = Omitted /\ CharPath(chunkIn.text.value)) =>
        /\ SelectSeq(ConcatContents(chunkOut.chunks), IsNonWs)
              = SelectSeq(chunkIn.text.value, IsNonWs)
        /\ (chunkIn.text.value = PlainText /\ chunkIn.maxChunkSize = 1000
               => Lengths(chunkOut.chunks) = <<1000, 1000, 500>>)

Sectioned ==
    sectionOut # Pending /\ sectionOut = Returns(sectionOut.chunks)

\* max(1, ceil(L / maxSize))
SectionChunkCount(L, maxChunkSize) ==
    IF L = 0 THEN 1 ELSE (L + maxChunkSize - 1) \div maxChunkSize

\* the number of chunks of the sections before the i-th one
RECURSIVE ChunksBefore(_, _, _)
ChunksBefore(sections, i, maxChunkSize) ==
    IF i <= 1 THEN 0
    ELSE ChunksBefore(sections, i - 1, maxChunkSize)
            + SectionChunkCount(Len(sections[i - 1].content), maxChunkSize)

\* C18: when the text has at least one heading line the chunker emits the sections
\* in heading order, max(1, ceil(L / maxSize)) chunks for a section whose body is
\* L long, all with the heading of the section; a body longer than maxSize is cut
\* into consecutive slices of exactly maxSize characters, the last one shorter
C18_SectionsSplitBySize ==
    (Sectioned /\ Len(findHeadings(chunkIn.text.value)) > 0) =>
        LET text == chunkIn.text.value
            size == chunkIn.maxChunkSize
            headings == findHeadings(text)
            sections == extractSections(text, headings)
            out == sectionOut.chunks
        IN  /\ Len(out) = ChunksBefore(sections, Len(sections) + 1, size)
            /\ \A i \in 1 .. Len(headings) :
                  LET body == sections[i].content
                      n == SectionChunkCount(Len(body), size)
                      first == ChunksBefore(sections, i, size)
                  IN  \A r \in 1 .. n :
                         /\ out[first + r].heading = Heading(headings[i].heading)
                         /\ out[first + r].content =
                               SubSeq(body, (r - 1) * size + 1, Min(Len(body), r * size))
                         /\ r < n => Len(out[first + r].content) = size

\* a text of several headings, one of them with a body longer than maxSize, was
\* chunked
C18_Witness ==
    /\ Sectioned
    /\ Len(findHeadings(chunkIn.text.value)) > 1
    /\ \E i \in 1 .. Len(findHeadings(chunkIn.text.value)) :
          Len(extractSections(chunkIn.text.value,
                              findHeadings(chunkIn.text.value))[i].content)
              > chunkIn.maxChunkSize
    /\ Len(sectionOut.chunks) > Len(findHeadings(chunkIn.text.value))

\* C19: a heading whose body is empty is kept as one chunk with that heading and
\* the empty string as content, so there are never fewer chunks than headings
C19_EmptySectionKept ==
    (Sectioned /\ Len(findHeadings(chunkIn.text.value)) > 0) =>
        LET text == chunkIn.text.value
            headings == findHeadings(text)
            sections == extractSections(text, headings)
        IN  /\ Len(sectionOut.chunks) >= Len(headings)
            /\ \A i \in 1 .. Len(headings) :
                  sections[i].content = <<>> =>
                      \E k \in 1 .. Len(sectionOut.chunks) :
                          /\ sectionOut.chunks[k] =
                                Chunk(Heading(headings[i].heading), <<>>)
                          /\ k = ChunksBefore(sections, i, chunkIn.maxChunkSize) + 1

\* "A:\nB:\nC:\nSome content." was chunked: the chunks of A: and B: are empty
C19_Witness ==
    /\ Sectioned
    /\ chunkIn.text.value = EmptySectionsText
    /\ chunkIn.maxChunkSize = 1000
    /\ Len(sectionOut.chunks) = 3
    /\ sectionOut.chunks[1] = Chunk(Heading(<<27, COLON>>), <<>>)
    /\ sectionOut.chunks[2] = Chunk(Heading(<<28, COLON>>), <<>>)
    /\ Len(sectionOut.chunks[3].content) = 13

\* C24: the chunker always terminates: every call of semanticChunkDocument, for
\* every text, every maxChunkSize >= 1 and every overlap >= 0 (the default of 50
\* with maxChunkSize <= 50 included), returns a finite sequence of chunks
C24_ChunkerTerminates ==
    chunkOut # Pending => chunkOut.terminates

\* the chunks that hold the units, in the order of the units: a map from the
\* units to the chunks that never goes back and sends each unit to a chunk whose
\* content contains it whole
InOrder(units, chunks) ==
    \E f \in [1 .. Len(units) -> 1 .. Len(chunks)] :
        /\ \A i \in 1 .. Len(units) : Contains(chunks[f[i]].content, units[i])
        /\ \A i \in 1 .. Len(units) - 1 : f[i] <= f[i + 1]

\* C28: on the unit path (bullets or sentences) no unit is lost, split or
\* reordered: every unit is whole inside a chunk and the chunks that hold the
\* units follow the order of the input; a unit longer than maxSize is a chunk of
\* its own, verbatim; when the units joined by single spaces fit in maxSize, one
\* chunk is returned and it is that join
C28_UnitsKeptWholeInOrder ==
    (Chunked /\ Len(AtomicUnits(chunkIn.text.value)) > 0) =>
        LET units == AtomicUnits(chunkIn.text.value)
            chunks == chunkOut.chunks
        IN  /\ Len(chunks) > 0
            /\ InOrder(units, chunks)
            /\ \A i \in 1 .. Len(units) :
                  Len(units[i]) > chunkIn.maxChunkSize =>
                      \E k \in 1 .. Len(chunks) : chunks[k].content = units[i]
            /\ Len(JoinWith(units, <<0>>)) <= chunkIn.maxChunkSize =>
                  chunks = <<Chunk(NoHeading, JoinWith(units, <<0>>))>>

\* three bullets with an overlap: the first two share a chunk and the third,
\* longer than maxChunkSize, is a chunk of its own
C28_Witness ==
    /\ Chunked
    /\ OverlapOrDefault(chunkIn.overlap) > 0
    /\ Len(AtomicUnits(chunkIn.text.value)) = 3
    /\ Len(chunkOut.chunks) = 2
    /\ Len(AtomicUnits(chunkIn.text.value)[3]) > chunkIn.maxChunkSize
    /\ chunkOut.chunks[1].content =
          JoinWith(SubSeq(AtomicUnits(chunkIn.text.value), 1, 2), <<0>>)
    /\ chunkOut.chunks[2].content = AtomicUnits(chunkIn.text.value)[3]

\* the text is not a string, or is a string of whitespace only (the empty one
\* included)
NothingToChunk(text) == text.type # "string" \/ trim(text.value) = <<>>

\* C26: semanticChunkDocument returns the empty sequence, without throwing, for
\* the empty string with any maxSize, for a text of whitespace only and for an
\* input that is not a string (null, undefined, a number, an array); so does the
\* heading-aware form for the empty and the whitespace-only string
C26_NothingToChunkGivesNoChunks ==
    /\ (chunkOut # Pending /\ NothingToChunk(chunkIn.text)) =>
           chunkOut = Returns(<<>>)
    /\ (sectionOut # Pending /\ chunkIn.text.type = "string"
           /\ NothingToChunk(chunkIn.text)) => sectionOut = Returns(<<>>)

(***************************************************************************)
(* Claims about extractText (specification SpecExtract)                    *)
(***************************************************************************)
\* the words joined by one space, or by nothing where joins says so
RECURSIVE JoinWords(_, _, _)
JoinWords(words, joins, k) ==
    IF k > Len(words) THEN <<>>
    ELSE IF k = Len(words) THEN words[k]
    ELSE words[k] \o (IF joins[k] THEN <<>> ELSE <<0>>) \o JoinWords(words, joins, k + 1)

\* C23: in the normalization, when more than half of the words between spaces
\* are single characters, only adjacent single-character words are joined (a
\* word of two or more characters is never merged with its neighbour); when
\* they are not more than half, no words are joined at all
C23_OnlySingleCharacterWordsJoined ==
    (extractOut # Pending /\ extractIn.contentType = "text/plain" /\ extractOut.ok) =>
        LET words == SplitOnSpace(cleanText(extractIn.buffer.decoded))
            charWords == {k \in 1 .. Len(words) : Len(words[k]) = 1}
        IN  IF 2 * Cardinality(charWords) > Len(words)
            THEN \E joins \in [1 .. Len(words) - 1 -> BOOLEAN] :
                    /\ \A k \in 1 .. Len(words) - 1 :
                          joins[k] => (k \in charWords /\ k + 1 \in charWords)
                    /\ extractOut.text = JoinWords(words, joins, 1)
            ELSE extractOut.text = cleanText(extractIn.buffer.decoded)

\* the strategy returned a text that is not blank
Succeeds(outcome) == ~outcome.threw /\ trim(outcome.text) # <<>>

Settle(p) ==
    /\ inv[p].pc = "done"
    /\ inv' = [inv EXCEPT ![p] = IdleInv]
    /\ UNCHANGED <<documents, document_chunks, calls>>

Init ==
    /\ ChunkIdle
    /\ IngestIdle
    /\ SearchIdle
    /\ apiKey \in BOOLEAN
    /\ embedText = <<1>>
    /\ embedCalls = 0
    /\ prevEmbed = NULL
    /\ lastEmbed = NULL

\* one processDocument invocation at a time
Next ==
    \/ /\ Quiescent
       /\ \E d \in DocIds, u \in Users, f \in Files : Upload(d, u, f)
       /\ UNCHANGED <<embedVars, searchVars, chunkVars, tmpFiles>>
    \/ /\ Quiescent
       /\ \E d \in DocIds, u \in Users : ProcessDocumentRoute(d, u)
       /\ UNCHANGED <<embedVars, searchVars, chunkVars, tmpFiles>>
    \/ \E p \in Procs : FetchDocument(p) /\ UNCHANGED <<embedVars, searchVars, chunkVars, tmpFiles>>
    \/ \E p \in Procs : ExtractAndChunk(p) /\ UNCHANGED <<embedVars, searchVars, chunkVars, tmpFiles>>
    \/ \E p \in Procs : GenerateChunkEmbeddings(p) /\ UNCHANGED <<embedVars, searchVars, chunkVars, tmpFiles>>
    \/ \E p \in Procs : InsertChunks(p) /\ UNCHANGED <<embedVars, searchVars, chunkVars, tmpFiles>>
    \/ \E p \in Procs : UpdateDocumentStatus(p) /\ UNCHANGED <<embedVars, searchVars, chunkVars, tmpFiles>>
    \/ \E p \in Procs : CatchProcessingError(p) /\ UNCHANGED <<embedVars, searchVars, chunkVars, tmpFiles>>
    \/ UploadCatch /\ UNCHANGED <<embedVars, searchVars, chunkVars, tmpFiles>>
    \/ \E p \in Procs : Settle(p) /\ UNCHANGED <<embedVars, searchVars, chunkVars, tmpFiles>>

Spec == Init /\ [][Next]_vars

(***************************************************************************)
(* Invocations that overlap (specification SpecConcurrent)                 *)
(***************************************************************************)
\* the row of a document whose processing after the upload failed at decryption
FailedUpload(userId, file) ==
    [user_id |-> userId, filename |-> file.filename,
     content_type |-> file.content_type, file |-> file,
     processed |-> FALSE, extracted_text |-> NULL, processing_error |-> "bad decrypt"]

\* nothing is uploaded yet, or u1 has uploaded bill.pdf as d1 before and its
\* processing failed; no OPENAI_API_KEY is set (embeddings are the hash-based ones)
ConcurrentInit ==
    /\ ChunkIdle
    /\ SearchIdle
    /\ apiKey = FALSE
    /\ embedText = <<1>>
    /\ embedCalls = 0
    /\ prevEmbed = NULL
    /\ lastEmbed = NULL
    /\ \E before \in {NULL} \cup {FailedUpload(Uploader["d1"], f) :
                                    f \in {g \in Files : g.filename = "bill.pdf"}} :
          documents = [d \in DocIds |-> IF d = "d1" THEN before ELSE NULL]
    /\ document_chunks = <<>>
    /\ inv = [p \in Procs |-> IdleInv]
    /\ calls = 0
    /\ tmpFiles = [t \in Timestamps |-> NULL]

\* the background processing of one upload and one call of the process-document
\* route run in the same event loop: their steps between awaits interleave
ConcurrentNext ==
    \/ /\ inv["upload"].pc = "idle"
       /\ \E d \in DocIds, u \in Users, f \in Files : Upload(d, u, f)
       /\ UNCHANGED <<embedVars, searchVars, chunkVars, tmpFiles>>
    \/ /\ inv["route"].pc = "idle"
       /\ \E d \in DocIds, u \in Users : ProcessDocumentRoute(d, u)
       /\ UNCHANGED <<embedVars, searchVars, chunkVars, tmpFiles>>
    \/ \E p \in Procs : FetchDocument(p) /\ UNCHANGED <<embedVars, searchVars, chunkVars, tmpFiles>>
    \/ \E p \in Procs :
          /\ inv[p].pc = "extract"
          /\ ~isPdf(inv[p].document.content_type)
          /\ ExtractAndChunk(p)
          /\ UNCHANGED <<embedVars, searchVars, chunkVars, tmpFiles>>
    \/ \E p \in Procs : WriteTmpFile(p) /\ UNCHANGED <<embedVars, searchVars, chunkVars>>
    \/ \E p \in Procs : LoadData(p) /\ UNCHANGED <<embedVars, searchVars, chunkVars>>
    \/ \E p \in Procs : FinishExtractPdf(p) /\ UNCHANGED <<embedVars, searchVars, chunkVars>>
    \/ \E p \in Procs : GenerateChunkEmbeddings(p) /\ UNCHANGED <<embedVars, searchVars, chunkVars, tmpFiles>>
    \/ \E p \in Procs : InsertChunks(p) /\ UNCHANGED <<embedVars, searchVars, chunkVars, tmpFiles>>
    \/ \E p \in Procs : UpdateDocumentStatus(p) /\ UNCHANGED <<embedVars, searchVars, chunkVars, tmpFiles>>
    \/ \E p \in Procs : CatchProcessingError(p) /\ UNCHANGED <<embedVars, searchVars, chunkVars, tmpFiles>>
    \/ UploadCatch /\ UNCHANGED <<embedVars, searchVars, chunkVars, tmpFiles>>

SpecConcurrent == ConcurrentInit /\ [][ConcurrentNext]_vars

(***************************************************************************)
(* Claims about ingestion (specification Spec)                             *)
(***************************************************************************)
AlreadyProcessed == Err("Document already processed")

\* C20: every chunk row processDocument has persisted has content that is not
\* empty and, trimmed, is longer than 50 characters, whichever of the semantic
\* chunker and the fallback splitter produced it
C20_PersistedChunksLongEnough ==
    \A k \in 1 .. Len(document_chunks) :
        Len(trim(document_chunks[k].content)) > MIN_CHUNK_LENGTH

\* C20 as amended: every chunk row processDocument has persisted has content
\* that is not empty; the semantic chunker's chunks are persisted whatever their
\* length, the minimum of more than 50 characters being the fallback splitter's
C20_PersistedChunksNonEmpty ==
    \A k \in 1 .. Len(document_chunks) :
        Len(trim(document_chunks[k].content)) > 0

\* a document is processed and one of its rows, a chunk of the semantic chunker,
\* is not longer than 50 characters
C20_Witness ==
    \E k \in 1 .. Len(document_chunks) :
        /\ documents[document_chunks[k].document_id] # NULL
        /\ documents[document_chunks[k].document_id].processed
        /\ document_chunks[k].content \in Range(ChunksOfText[1])
        /\ Len(trim(document_chunks[k].content)) <= MIN_CHUNK_LENGTH

RowsOf(documentId) ==
    {i \in 1 .. Len(document_chunks) : document_chunks[i].document_id = documentId}

\* C1: no document ever has both processed = true and a recorded processing_error.
C1_NeverProcessedAndError ==
    \A d \in DocIds :
        documents[d] # NULL =>
            ~(documents[d].processed /\ documents[d].processing_error # NullString)

\* C2: an invocation on a document of the caller whose processed flag is true is
\* rejected by fetchDocument with "Document already processed" before anything is
\* extracted; none of its steps inserts a chunk row or changes processed or
\* extracted_text of the document.
C2_ProcessedDocumentRejected ==
    [][\A p \in Procs :
        LET d == inv[p].documentId
        IN  /\ ( /\ inv[p].pc = "fetch"
                 /\ inv'[p] # inv[p]
                 /\ documents[d] # NULL
                 /\ documents[d].user_id = inv[p].userId
                 /\ documents[d].processed )
               => /\ inv'[p].pc = "catch"
                  /\ inv'[p].thrown = AlreadyProcessed
                  /\ inv'[p].extractedText = NULL
                  /\ documents' = documents
                  /\ document_chunks' = document_chunks
            /\ ( /\ inv[p].pc \in {"catch", "rejected"}
                 /\ inv[p].thrown = AlreadyProcessed )
               => /\ document_chunks' = document_chunks
                  /\ documents'[d].processed = documents[d].processed
                  /\ documents'[d].extracted_text = documents[d].extracted_text
                  /\ inv'[p].inserted = {}
                  /\ inv'[p].extractedText = NULL]_vars

C2_Witness ==
    \E p \in Procs :
        /\ inv[p].pc = "done"
        /\ inv[p].thrown = AlreadyProcessed
        /\ documents[inv[p].documentId].processed
        /\ RowsOf(inv[p].documentId) # {}

\* C3: an invocation that was accepted (the document was unprocessed) and then
\* failed has rethrown the error, and leaves the document with processed = false
\* and processing_error equal to the message of the failure, so that the next
\* invocation by the owner is accepted.
C3_FailureRecordedAndRetryable ==
    \A p \in Procs :
        ( /\ inv[p].pc = "done"
          /\ inv[p].document # NULL
          /\ inv[p].thrown # NULL )
        => LET d == inv[p].documentId
           IN  /\ documents[d].processed = FALSE
               /\ documents[d].processing_error = inv[p].thrown.message
               /\ fetchDocument(documents, d, inv[p].userId).ok

\* C4: when the embedding of some chunk N throws, the invocation never reaches the
\* chunk insert: it has inserted no row (not even those of the chunks before N)
\* and the document's processed flag is false.
C4_EmbeddingFailureInsertsNothing ==
    \A p \in Procs :
        inv[p].embedFault > 0 =>
            /\ inv[p].pc \in {"catch", "rejected", "done"}
            /\ inv[p].thrown # NULL
            /\ inv[p].inserted = {}
            /\ \A i \in RowsOf(inv[p].documentId) :
                  document_chunks[i].id \notin inv[p].inserted
            /\ documents[inv[p].documentId].processed = FALSE

C4_Witness ==
    \E p \in Procs :
        /\ inv[p].pc = "done"
        /\ inv[p].embedFault = 2
        /\ Len(inv[p].chunks) = 2
        /\ inv[p].thrown = Err("Failed to generate embedding for chunk")
        /\ RowsOf(inv[p].documentId) = {}

\* C5: when the chunk insert or the status update of an invocation has failed, no
\* chunk row written by that invocation remains in document_chunks.
C5_WriteFailureLeavesNoRows ==
    \A p \in Procs :
        ( /\ inv[p].pc = "done"
          /\ inv[p].thrown # NULL
          /\ inv[p].thrown.message \in
                {"Failed to store document chunks: db error", "db error"} )
        => \A i \in 1 .. Len(document_chunks) :
              document_chunks[i].id \notin inv[p].inserted

\* C6: the chunk_index values of the rows of a document are exactly 0 .. n-1,
\* each once.
C6_ChunkIndexContiguous ==
    \A d \in DocIds :
        LET rows == RowsOf(d)
        IN  /\ {document_chunks[i].chunk_index : i \in rows}
                  = 0 .. (Cardinality(rows) - 1)
            /\ \A i, j \in rows :
                  document_chunks[i].chunk_index = document_chunks[j].chunk_index
                      => i = j

\* every persisted chunk row carries an embedding of EMBED_DIM entries
RowEmbeddingsHaveDim ==
    \A i \in 1 .. Len(document_chunks) :
        Len(document_chunks[i].embedding) = EMBED_DIM

\* the invocation has run extractText on a PDF and both LlamaParse and pdf2json
\* threw
AllPdfStrategiesFailed(p) ==
    /\ inv[p].pc \notin {"idle", "fetch", "extract"}
    /\ inv[p].document # NULL
    /\ isPdf(inv[p].document.content_type)
    /\ ~inv[p].extractEnv.llama
    /\ ~inv[p].extractEnv.pdf2json

\* C21: when every PDF extraction strategy has failed for a document, the
\* ingestion is aborted: the invocation goes to its catch without embedding or
\* inserting anything, and it ends with processing_error recorded and the
\* document still unprocessed
C21_FailedPdfExtractionAborts ==
    \A p \in Procs :
        AllPdfStrategiesFailed(p) =>
            LET d == inv[p].documentId
            IN  /\ inv[p].pc \in {"catch", "rejected", "done"}
                /\ inv[p].thrown # NULL
                /\ inv[p].inserted = {}
                /\ documents[d].processed = FALSE
                /\ inv[p].pc = "done" => documents[d].processing_error # NullString

\* C25: when processDocument has returned its success summary, the document has
\* processed = true, the summary's chunks is the number of chunk rows this
\* invocation inserted, all of them rows of the document, and the stored
\* extracted_text is the extracted text cut to its first 10000 characters
C25_SuccessSummaryMatchesStore ==
    \A p \in Procs :
        (inv[p].pc = "done" /\ inv[p].result # NULL) =>
            LET d == inv[p].documentId
                text == ExtractedContent[inv[p].extractedText.id]
            IN  /\ inv[p].result.success
                /\ documents[d].processed
                /\ inv[p].result.chunks = Cardinality(inv[p].inserted)
                /\ \A i \in inv[p].inserted :
                      /\ i \in 1 .. Len(document_chunks)
                      /\ document_chunks[i].document_id = d
                /\ documents[d].extracted_text.id = inv[p].extractedText.id
                /\ documents[d].extracted_text.length = Min(Len(text), 10000)

\* a success on a text of more than 10000 characters, stored cut
C25_Witness ==
    \E p \in Procs :
        /\ inv[p].pc = "done"
        /\ inv[p].result # NULL
        /\ inv[p].result.chunks = 1
        /\ inv[p].inserted # {}
        /\ inv[p].result.extractedLength > 10000
        /\ documents[inv[p].documentId].extracted_text.length = 10000

\* the texts extractText can return for the file when it reads nothing but the
\* file's own bytes
OwnTexts(file) ==
    {Extractions[file][file][env].text.id :
        env \in {e \in ExtractEnvs : Extractions[file][file][e].ok}}

\* the contents of the rows of the document, in table order
ContentsOf(documentId) ==
    LET OfDocument(r) == r.document_id = documentId
        rows == SelectSeq(document_chunks, OfDocument)
    IN  [k \in 1 .. Len(rows) |-> rows[k].content]

\* both callers are inside processDocument, each for another document
DifferentDocuments ==
    /\ \A p \in Procs : inv[p].pc # "idle"
    /\ inv["upload"].documentId # inv["route"].documentId

\* C27: while processDocument runs for two different documents at once, the
\* chunk rows of each document are the chunks of a text extracted from that
\* document's own file (exactly the rows one run on it alone leaves), and the
\* extracted_text of each processed document is a text of its own file
C27_DocumentsIndependent ==
    DifferentDocuments =>
        \A d \in {inv[p].documentId : p \in Procs} :
            documents[d] # NULL =>
                /\ \/ ContentsOf(d) = <<>>
                   \/ \E id \in OwnTexts(documents[d].file) :
                         ContentsOf(d) = ChunksOfText[id]
                /\ documents[d].processed =>
                      documents[d].extracted_text.id \in OwnTexts(documents[d].file)

\* both callers are inside processDocument for the same document
Overlapping ==
    /\ \A p \in Procs : inv[p].pc \notin {"idle", "done"}
    /\ inv["upload"].documentId = inv["route"].documentId

\* C29: when the background processing of an upload and a call of the
\* process-document route overlap on the same unprocessed document, at most one
\* of the two has inserted chunk rows
C29_OverlappingInvocationsInsertOnce ==
    Overlapping => \E p \in Procs : inv[p].inserted = {}

Sign(x) == IF x > 0 THEN 1 ELSE IF x < 0 THEN 0 - 1 ELSE 0

EmbedOutcomes == {c \in {prevEmbed, lastEmbed} : c # NULL}

\* the vector came from the hash-based fallback
FromHash(c) == c.result.path[Len(c.result.path)] = "hash"

\* C7: the vector generateEmbedding returns has exactly 384 entries on every path;
\* provider output longer than 384 is cut to its first 384 entries, shorter output
\* is followed by zeros up to 384, output of 384 entries is returned as it is.
C7_EmbeddingHas384Entries ==
    \A c \in EmbedOutcomes :
        LET v == c.result.embedding
            pv == ProviderVector(embedText, c.env.providerLen)
        IN  /\ Len(v) = 384
            /\ c.result.path = <<"openai">> =>
                  /\ Len(pv) > 384 => v = SubSeq(pv, 1, 384)
                  /\ Len(pv) < 384 =>
                        /\ SubSeq(v, 1, Len(pv)) = pv
                        /\ \A i \in (Len(pv) + 1) .. 384 : v[i] = 0
                  /\ Len(pv) = 384 => v = pv

C7_Witness ==
    /\ prevEmbed # NULL
    /\ lastEmbed # NULL
    /\ prevEmbed.result.path = <<"openai">>
    /\ prevEmbed.env.providerLen = 1600
    /\ lastEmbed.result.path = <<"openai">>
    /\ lastEmbed.env.providerLen = 100
    /\ lastEmbed.result.embedding[100] # 0
    /\ lastEmbed.result.embedding[101] = 0

\* C8: generateEmbedding never throws and runs provider, hash, random in this
\* order: the provider vector is returned when the key is set and the call
\* succeeds, the hash vector is computed only when there is no key or the provider
\* call failed, the random vector only when the hash computation threw.
C8_FallbackChain ==
    \A c \in EmbedOutcomes :
        LET r == c.result
            providerOk == apiKey /\ ~c.env.providerThrows
        IN  /\ ~r.threw
            /\ Len(r.embedding) > 0
            /\ r.path \in {<<"openai">>, <<"openai", "hash">>,
                           <<"openai", "hash", "random">>,
                           <<"hash">>, <<"hash", "random">>}
            /\ (r.path[1] = "openai") <=> apiKey
            /\ providerOk => r.path = <<"openai">>
            /\ (\E i \in 1 .. Len(r.path) : r.path[i] = "hash") <=> ~providerOk
            /\ (\E i \in 1 .. Len(r.path) : r.path[i] = "random")
                  <=> (~providerOk /\ c.env.hashThrows)

C8_Witness ==
    /\ apiKey
    /\ prevEmbed # NULL
    /\ lastEmbed # NULL
    /\ prevEmbed.env.providerThrows
    /\ prevEmbed.env.hashThrows
    /\ prevEmbed.result.path = <<"openai", "hash", "random">>
    /\ lastEmbed.env.providerThrows
    /\ ~lastEmbed.env.hashThrows
    /\ lastEmbed.result.path = <<"openai", "hash">>

\* C9: two hash-based embeddings of the same text have the same sign in every
\* dimension.
C9_HashSignDeterministic ==
    ( /\ prevEmbed # NULL
      /\ lastEmbed # NULL
      /\ FromHash(prevEmbed)
      /\ FromHash(lastEmbed) )
    => \A i \in 1 .. EMBED_DIM :
          Sign(prevEmbed.result.embedding[i]) = Sign(lastEmbed.result.embedding[i])

EmbedInit ==
    /\ ChunkIdle
    /\ IngestIdle
    /\ SearchIdle
    /\ apiKey \in BOOLEAN
    /\ embedText \in Texts
    /\ embedCalls = 0
    /\ prevEmbed = NULL
    /\ lastEmbed = NULL

\* one call generateEmbedding(embedText) under the outcomes env of its collaborators
CallGenerateEmbedding ==
    \E env \in EmbedEnvs :
        /\ embedCalls < MaxEmbedCalls
        /\ embedCalls' = embedCalls + 1
        /\ prevEmbed' = lastEmbed
        /\ lastEmbed' = [env |-> env, result |-> generateEmbedding(embedText, apiKey, env)]
        /\ UNCHANGED <<apiKey, embedText>>
        /\ UNCHANGED <<ingestVars, searchVars, chunkVars>>

EmbedNext == CallGenerateEmbedding

SpecEmbed == EmbedInit /\ [][EmbedNext]_vars

====
